---- MODULE Spec2Model ----
(***************************************************************************)
(* A model of the JSON Structure validators of samples/py:                 *)
(*   json_structure_instance_validator.py  (JSONStructureInstanceValidator)*)
(*   json_structure_schema_validator.py    (JSONStructureSchemaCoreValidator)*)
(*                                                                         *)
(* Python objects live in a heap (dicts and lists are addressed, so that   *)
(* aliasing and in-place mutation are those of the program); scalars are   *)
(* values.  A validator call is one action; it is computed by operators    *)
(* that thread the interpreter state (heap, self.errors, a pending         *)
(* exception) through the statements of the method, in source order.       *)
(***************************************************************************)
EXTENDS Integers, Sequences, FiniteSets, TLC

(***************************************************************************)
(* Bounds of the model.                                                    *)
(***************************************************************************)
\* Depth of nested validate_instance frames after which
\* the interpreter raises RecursionError (sys.getrecursionlimit() in CPython;
\* every input of the model that is not cyclic nests less deeply than this).
MaxDepth == 7
\* Number of validate_instance calls made on one validator object.
MaxCalls == 2
\* Depth of the stack, counted from the first _process_imports frame, beyond
\* which the interpreter raises RecursionError in place of a call.
MaxFrames == 16

(***************************************************************************)
(* JSON / Python values.  Scalars are records tagged by k; a dict or list  *)
(* literal (a "tree") nests its children, a dict or list object of the heap*)
(* holds scalars and references.  Floats are kept in tenths (t).           *)
(***************************************************************************)
Null == [k |-> "null"]
Bool(b) == [k |-> "bool", b |-> b]
IntV(n) == [k |-> "int", n |-> n]
FloatV(t) == [k |-> "float", t |-> t]
Str(s) == [k |-> "str", s |-> s]
Ref(a) == [k |-> "ref", a |-> a]
List(xs) == [k |-> "list", xs |-> xs]
Dict(kvs) ==
    [k |-> "dict",
     ks |-> [i \in 1..Len(kvs) |-> kvs[i][1]],
     vs |-> [i \in 1..Len(kvs) |-> kvs[i][2]]]
EmptyDict == [k |-> "dict", ks |-> <<>>, vs |-> <<>>]

\* Sequence helpers.
RECURSIVE IndexOf(_, _, _)
IndexOf(seq, x, i) ==
    IF i > Len(seq) THEN 0
    ELSE IF seq[i] = x THEN i ELSE IndexOf(seq, x, i + 1)
InSeq(seq, x) == IndexOf(seq, x, 1) # 0
RemoveAt(seq, i) == SubSeq(seq, 1, i - 1) \o SubSeq(seq, i + 1, Len(seq))

\* json.load / a dict literal: allocates every container of tree t afresh,
\* children first and from left to right.
RECURSIVE Load(_, _), LoadSeq(_, _)
LoadSeq(h, ts) ==
    IF ts = <<>> THEN [vs |-> <<>>, h |-> h]
    ELSE LET first == Load(h, Head(ts))
             rest == LoadSeq(first.h, Tail(ts))
         IN [vs |-> <<first.v>> \o rest.vs, h |-> rest.h]
Load(h, t) ==
    IF t.k = "dict"
    THEN LET c == LoadSeq(h, t.vs)
         IN [v |-> Ref(Len(c.h) + 1),
             h |-> Append(c.h, [k |-> "dict", ks |-> t.ks, vs |-> c.vs])]
    ELSE IF t.k = "list"
    THEN LET c == LoadSeq(h, t.xs)
         IN [v |-> Ref(Len(c.h) + 1),
             h |-> Append(c.h, [k |-> "list", xs |-> c.vs])]
    ELSE [v |-> t, h |-> h]

\* The tree a value denotes in heap h (the value as JSON text would show it).
RECURSIVE Deref(_, _)
Deref(h, v) ==
    IF v.k # "ref" THEN v
    ELSE LET o == h[v.a]
         IN IF o.k = "dict"
            THEN [k |-> "dict", ks |-> o.ks,
                  vs |-> [i \in 1..Len(o.vs) |-> Deref(h, o.vs[i])]]
            ELSE [k |-> "list", xs |-> [i \in 1..Len(o.xs) |-> Deref(h, o.xs[i])]]

\* isinstance(v, dict), isinstance(v, list), isinstance(v, str), ...
IsDict(h, v) == v.k = "ref" /\ h[v.a].k = "dict"
IsList(h, v) == v.k = "ref" /\ h[v.a].k = "list"
IsStr(v) == v.k = "str"
IsBool(v) == v.k = "bool"
\* bool is a subclass of int in Python.
IsInt(v) == v.k \in {"int", "bool"}
IsIntOrFloat(v) == v.k \in {"int", "bool", "float"}

\* type(v).__name__
TypeName(h, v) ==
    CASE v.k = "null" -> "NoneType"
      [] v.k = "bool" -> "bool"
      [] v.k = "int" -> "int"
      [] v.k = "float" -> "float"
      [] v.k = "str" -> "str"
      [] v.k = "ref" -> h[v.a].k

\* Python truthiness of a value.
Truthy(h, v) ==
    CASE v.k = "null" -> FALSE
      [] v.k = "bool" -> v.b
      [] v.k = "int" -> v.n # 0
      [] v.k = "float" -> v.t # 0
      [] v.k = "str" -> v.s # ""
      [] v.k = "ref" -> IF h[v.a].k = "dict" THEN h[v.a].ks # <<>>
                        ELSE h[v.a].xs # <<>>

\* dict operations: key in d, d[key], d.get(key), d.get(key, default),
\* d[key] = val, del d[key].  Keys keep their insertion order.
HasKey(h, d, key) == InSeq(h[d.a].ks, key)
GetItem(h, d, key) == h[d.a].vs[IndexOf(h[d.a].ks, key, 1)]
Get(h, d, key) == IF HasKey(h, d, key) THEN GetItem(h, d, key) ELSE Null
Keys(h, d) == h[d.a].ks
SetItem(h, d, key, val) ==
    LET o == h[d.a]
        i == IndexOf(o.ks, key, 1)
    IN IF i # 0
       THEN [h EXCEPT ![d.a] = [o EXCEPT !.vs = [o.vs EXCEPT ![i] = val]]]
       ELSE [h EXCEPT ![d.a] = [o EXCEPT !.ks = Append(o.ks, key),
                                         !.vs = Append(o.vs, val)]]
DelItem(h, d, key) ==
    LET o == h[d.a]
        i == IndexOf(o.ks, key, 1)
    IN [h EXCEPT ![d.a] = [o EXCEPT !.ks = RemoveAt(o.ks, i),
                                      !.vs = RemoveAt(o.vs, i)]]
\* list operations: x in l (scalars), l.append(x).
ListItems(h, l) == h[l.a].xs
ListAppend(h, l, x) == [h EXCEPT ![l.a] = [@ EXCEPT !.xs = Append(@, x)]]
\* A new object: returns the heap and the reference.
Alloc(h, o) == [h |-> Append(h, o), v |-> Ref(Len(h) + 1)]

(***************************************************************************)
(* Strings.  A string value is atomic; where the program reads one         *)
(* character by character (pointers) its text is looked up in KnownTexts,  *)
(* the character sequences of the strings the model's documents use.       *)
(***************************************************************************)
RECURSIVE Concat(_)
Concat(cs) == IF cs = <<>> THEN "" ELSE Head(cs) \o Concat(Tail(cs))
KnownTexts ==
    { <<"#">>,
      <<"#", "/", "A">>,
      <<"#", "/", "B">>,
      <<"#", "/", "C">>,
      <<"#", "/", "D">>,
      <<"#", "/", "E">>,
      <<"#", "/", "N">>,
      <<"#", "/", "Base">>,
      <<"#", "/", "Address">>,
      <<"#", "/", "definitions", "/", "Base">>,
      <<"#", "/", "AddA">>,
      <<"#", "/", "AddB">>,
      <<"#", "/", "A", "/", "x">>,
      <<"#", "/", "A", "/", "type">>,
      <<"#", "/", "A", "/", "type", "/", "x">>,
      <<"#", "/", "m", "~", "1">>,
      <<"#", "/", "a", "~", "1", "b">>,
      <<"#", "/", "m", "~", "0", "1">>,
      <<"#", "/", "definitions", "/", "Address">>,
      <<"#", "/", "definitions", "/", "NS", "/", "X">>,
      <<"#", "/", "A", "/">>,
      <<"#", "/", "A", "/", "/", "type">>,
      <<"#", "A">>,
      <<"#", "N">>,
      <<"#", "#", "/", "A">>,
      <<"A">> }
Chars(s) == CHOOSE cs \in KnownTexts : Concat(cs) = s

\* s.lstrip(c)
RECURSIVE LStrip(_, _)
LStrip(cs, c) ==
    IF cs # <<>> /\ Head(cs) = c THEN LStrip(Tail(cs), c) ELSE cs
\* s.split(sep): the pieces between the separators (at least one piece).
RECURSIVE SplitFrom(_, _, _)
SplitFrom(cs, sep, cur) ==
    IF cs = <<>> THEN <<cur>>
    ELSE IF Head(cs) = sep THEN <<cur>> \o SplitFrom(Tail(cs), sep, <<>>)
    ELSE SplitFrom(Tail(cs), sep, Append(cur, Head(cs)))
Split(cs, sep) == SplitFrom(cs, sep, <<>>)
\* s.replace(old, new) for a two-character old, left to right.
RECURSIVE Replace2(_, _, _)
Replace2(cs, old, new) ==
    IF Len(cs) < 2 THEN cs
    ELSE IF cs[1] = old[1] /\ cs[2] = old[2]
    THEN new \o Replace2(SubSeq(cs, 3, Len(cs)), old, new)
    ELSE <<cs[1]>> \o Replace2(Tail(cs), old, new)

(***************************************************************************)
(* The interpreter state threaded through a call:                          *)
(*   h       the heap                                                      *)
(*   root    self.root_schema                                              *)
(*   errors  self.errors                                                   *)
(*   exc     the exception being propagated ("" when none)                 *)
(*   log     history of the trial branches run (not program state)         *)
(*   trial   number of trial branches being evaluated (not program state)  *)
(*   kept    the diagnostics appended outside every trial branch (not      *)
(*           program state)                                                *)
(* A diagnostic is the f-string's template, its path and its other         *)
(* arguments; detail holds the diagnostics a message embeds.               *)
(***************************************************************************)
NoExc == ""
Raise(st, e) == [st EXCEPT !.exc = e]
Diag(msg, path, arg) == [msg |-> msg, path |-> path, arg |-> arg, detail |-> <<>>]
DiagD(msg, path, arg, detail) ==
    [msg |-> msg, path |-> path, arg |-> arg, detail |-> detail]
\* self.errors.append(...)
Err(st, d) ==
    [st EXCEPT !.errors = Append(@, d),
               !.kept = IF st.trial = 0 THEN Append(@, d) ELSE @]
\* backup = list(self.errors); self.errors = [] before a trial branch, and
\* the assignment to self.errors that ends it.
Probe(st) == [st EXCEPT !.errors = <<>>, !.trial = @ + 1]
\* Faulty variant of EndProbe: the assignment to self.errors is forgotten.
EndProbeKeep(st, errs) == [st EXCEPT !.trial = @ - 1]
EndProbe(st, errs) == [st EXCEPT !.errors = errs, !.trial = @ - 1]

\* a == b on JSON values: numbers compare by value (True == 1, 1 == 1.0),
\* lists element by element, dicts as key/value sets.
Tenths(v) ==
    CASE v.k = "bool" -> IF v.b THEN 10 ELSE 0
      [] v.k = "int" -> 10 * v.n
      [] v.k = "float" -> v.t
RECURSIVE PyEq(_, _, _)
PyEq(h, a, b) ==
    IF IsIntOrFloat(a) /\ IsIntOrFloat(b) THEN Tenths(a) = Tenths(b)
    ELSE IF a.k # b.k THEN FALSE
    ELSE IF a.k # "ref" THEN a = b
    ELSE LET x == h[a.a]
             y == h[b.a]
         IN IF x.k # y.k THEN FALSE
            ELSE IF x.k = "list"
            THEN /\ Len(x.xs) = Len(y.xs)
                 /\ \A i \in 1..Len(x.xs) : PyEq(h, x.xs[i], y.xs[i])
            ELSE /\ Len(x.ks) = Len(y.ks)
                 /\ \A i \in 1..Len(x.ks) :
                       /\ InSeq(y.ks, x.ks[i])
                       /\ PyEq(h, x.vs[i], y.vs[IndexOf(y.ks, x.ks[i], 1)])
\* x in l, for a list l.
RECURSIVE ListHas(_, _, _, _)
ListHas(h, xs, x, i) ==
    IF i > Len(xs) THEN FALSE
    ELSE IF PyEq(h, xs[i], x) THEN TRUE ELSE ListHas(h, xs, x, i + 1)

\* Faulty variant of ResolveParts: ~0 is replaced before ~1.
RECURSIVE ResolvePartsSwapped(_, _, _)
ResolvePartsSwapped(h, target, parts) ==
    IF parts = <<>> THEN target
    ELSE IF Head(parts) = <<>> THEN ResolvePartsSwapped(h, target, Tail(parts))
    ELSE LET part == Concat(Replace2(Replace2(Head(parts), <<"~", "0">>, <<"~">>),
                                     <<"~", "1">>, <<"/">>))
         IN IF IsDict(h, target) /\ HasKey(h, target, part)
            THEN ResolvePartsSwapped(h, GetItem(h, target, part), Tail(parts))
            ELSE Null
\* _resolve_ref, lines 596-606: the walk over the pointer's parts.
RECURSIVE ResolveParts(_, _, _)
ResolveParts(h, target, parts) ==
    IF parts = <<>> THEN target
    ELSE IF Head(parts) = <<>> THEN ResolveParts(h, target, Tail(parts))
    ELSE LET part == Concat(Replace2(Replace2(Head(parts), <<"~", "1">>, <<"/">>),
                                     <<"~", "0">>, <<"~">>))
         IN IF IsDict(h, target) /\ HasKey(h, target, part)
            THEN ResolveParts(h, GetItem(h, target, part), Tail(parts))
            ELSE Null
\* _resolve_ref(ref) for a string ref; Null is Python's None.
resolve_ref(h, root, ref) ==
    LET cs == Chars(ref.s)
    IN IF ~(cs # <<>> /\ Head(cs) = "#") THEN Null
       ELSE ResolveParts(h, root, Split(LStrip(cs, "#"), "/"))

(***************************************************************************)
(* JSONStructureInstanceValidator.validate_instance                        *)
(***************************************************************************)
ExtendedMeta == "https://json-structure.github.io/meta/extended/v0/#"
ValidationMeta == "https://json-structure.github.io/meta/validation/v0/#"
CoreMeta == "https://json-structure.github.io/meta/core/v0/#"
CondAddin == "JSONStructureConditionalComposition"
ValidAddin == "JSONStructureValidation"
\* all_addins, line 85
all_addins == <<CondAddin, ValidAddin, "JSONStructureUnits", "JSONStructureAlternateNames">>

\* x in c, for c a list (by ==), a dict (a key) or a string (a substring).
IsSubstring(a, b) ==
    \E i \in 0..(Len(b) - Len(a)) : SubSeq(b, i + 1, i + Len(a)) = a
Contains(h, c, x) ==
    IF IsList(h, c) THEN ListHas(h, ListItems(h, c), x, 1)
    ELSE IF IsDict(h, c) THEN x.k = "str" /\ HasKey(h, c, x.s)
    ELSE IsStr(c) /\ x.k = "str" /\ IsSubstring(Chars(x.s), Chars(c.s))
\* dict(d): a shallow copy; d.update(e); d.get(key, {}) read as its items.
DictCopy(h, d) == Alloc(h, h[d.a])
RECURSIVE UpdateFrom(_, _, _, _)
UpdateFrom(h, d, e, i) ==
    IF i > Len(h[e.a].ks) THEN h
    ELSE UpdateFrom(SetItem(h, d, h[e.a].ks[i], h[e.a].vs[i]), d, e, i + 1)
Update(h, d, e) == UpdateFrom(h, d, e, 1)

\* schema.setdefault("$uses", [])
SetDefaultUses(h, schema) ==
    IF HasKey(h, schema, "$uses") THEN h
    ELSE LET a == Alloc(h, List(<<>>)) IN SetItem(a.h, schema, "$uses", a.v)
\* for addin in names: if addin not in schema["$uses"]: schema["$uses"].append(addin)
RECURSIVE AppendMissing(_, _, _)
AppendMissing(h, schema, names) ==
    IF names = <<>> THEN h
    ELSE LET u == GetItem(h, schema, "$uses")
             h1 == IF Contains(h, u, Str(Head(names))) THEN h
                   ELSE ListAppend(h, u, Str(Head(names)))
         IN AppendMissing(h1, schema, Tail(names))
\* The addins of names that instance["$uses"] holds, in the order of names.
RECURSIVE NamedIn(_, _, _)
NamedIn(h, uses, names) ==
    IF names = <<>> THEN <<>>
    ELSE (IF Contains(h, uses, Str(Head(names))) THEN <<Head(names)>> ELSE <<>>)
         \o NamedIn(h, uses, Tail(names))

RootMetaIs(st, uri) == Get(st.h, st.root, "$schema") = Str(uri)
InstanceHasUses(st, instance) ==
    IsDict(st.h, instance) /\ HasKey(st.h, instance, "$uses")

\* Lines 83-90: the extended meta-schema enables every addin on the schema.
vi_extended_meta(st, schema) ==
    IF RootMetaIs(st, ExtendedMeta)
    THEN [st EXCEPT !.h = AppendMissing(SetDefaultUses(st.h, schema), schema, all_addins)]
    ELSE st
\* Lines 92-99: under the validation meta-schema an instance's $uses enables
\* the addins it names.
vi_validation_meta(st, instance, schema) ==
    IF InstanceHasUses(st, instance) /\ RootMetaIs(st, ValidationMeta)
    THEN [st EXCEPT !.h =
             AppendMissing(SetDefaultUses(st.h, schema), schema,
                           NamedIn(st.h, GetItem(st.h, instance, "$uses"),
                                   <<ValidAddin, CondAddin>>))]
    ELSE st
\* Lines 103-106: under the core meta-schema such an instance is diagnosed.
vi_core_meta(st, instance, path) ==
    IF /\ InstanceHasUses(st, instance)
       /\ RootMetaIs(st, CoreMeta)
       /\ NamedIn(st.h, GetItem(st.h, instance, "$uses"), <<ValidAddin, CondAddin>>) # <<>>
    THEN Err(st, Diag("Instance at {path} references JSONStructureConditionalComposition or JSONStructureValidation addins but the schema does not support them", path, ""))
    ELSE st

\* "X" in self.root_schema["$uses"], guarded by "$uses" in self.root_schema
\* (lines 118-119 and 366-368).
RootUses(st, addin) ==
    /\ HasKey(st.h, st.root, "$uses")
    /\ Contains(st.h, GetItem(st.h, st.root, "$uses"), Str(addin))

(***************************************************************************)
(* _apply_uses, lines 703-754.                                             *)
(***************************************************************************)
ReservedAddins == {CondAddin, ValidAddin, "JSONStructureAlternateNames", "JSONStructureUnits"}

\* for prop in addin_props: if prop in merged["properties"]: (conflict)
RECURSIVE ConflictLoop(_, _, _, _, _)
ConflictLoop(st, mprops, aprops, i, use) ==
    IF i > Len(Keys(st.h, aprops)) THEN st
    ELSE LET prop == Keys(st.h, aprops)[i]
             s1 == IF HasKey(st.h, mprops, prop)
                   THEN Err(st, Diag("Add-in property '{prop}' from add-in '{use}' conflicts with existing property", "", prop \o "," \o use))
                   ELSE st
         IN ConflictLoop(s1, mprops, aprops, i + 1, use)
\* if isinstance(resolved, dict): addin_props = resolved.get("properties", {});
\* (conflicts); merged["properties"].update(addin_props)
MergeAddin(st, merged, resolved, use) ==
    IF ~IsDict(st.h, resolved) THEN st
    ELSE IF ~HasKey(st.h, resolved, "properties") THEN st
    ELSE LET aprops == GetItem(st.h, resolved, "properties")
             mprops == GetItem(st.h, merged, "properties")
         IN IF ~IsDict(st.h, aprops) \/ ~IsDict(st.h, mprops) THEN Raise(st, "TypeError")
            ELSE LET s1 == ConflictLoop(st, mprops, aprops, 1, use)
                 IN [s1 EXCEPT !.h = Update(s1.h, mprops, aprops)]
\* for ref in addin: resolved = self._resolve_ref(ref) if isinstance(ref, str) else ref
RECURSIVE AddinListLoop(_, _, _, _, _)
AddinListLoop(st, merged, refs, i, use) ==
    IF st.exc # NoExc \/ i > Len(refs) THEN st
    ELSE LET resolved == IF IsStr(refs[i]) THEN resolve_ref(st.h, st.root, refs[i])
                         ELSE refs[i]
         IN AddinListLoop(MergeAddin(st, merged, resolved, use), merged, refs, i + 1, use)
\* One iteration of the loop over the names in uses, lines 721-753.
ApplyUse(st, merged, offers, u) ==
    IF u.k = "str" /\ u.s \in ReservedAddins THEN st
    ELSE IF u.k = "ref" THEN Raise(st, "TypeError")
    ELSE IF ~(offers # Null /\ Contains(st.h, offers, u))
    THEN Err(st, Diag("Add-in '{use}' not offered in $offers", "", u.s))
    ELSE LET addin == GetItem(st.h, offers, u.s)
         IN IF IsList(st.h, addin)
            THEN AddinListLoop(st, merged, ListItems(st.h, addin), 1, u.s)
            ELSE IF IsDict(st.h, addin) /\ HasKey(st.h, addin, "$ref")
            THEN IF ~IsStr(GetItem(st.h, addin, "$ref")) THEN Raise(st, "AttributeError")
                 ELSE MergeAddin(st, merged,
                                 resolve_ref(st.h, st.root, GetItem(st.h, addin, "$ref")),
                                 u.s)
            ELSE IF IsDict(st.h, addin)
            THEN MergeAddin(st, merged, addin, u.s)
            ELSE Err(st, Diag("Invalid add-in definition for '{use}'", "", u.s))
RECURSIVE UsesLoop(_, _, _, _, _)
UsesLoop(st, merged, offers, uses, i) ==
    IF st.exc # NoExc \/ i > Len(uses) THEN st
    ELSE UsesLoop(ApplyUse(st, merged, offers, uses[i]), merged, offers, uses, i + 1)
\* Returns the state and the schema to go on with.
apply_uses(st, schema, instance) ==
    LET uses == Get(st.h, instance, "$uses")
    IN IF ~Truthy(st.h, uses) THEN [st |-> st, schema |-> schema]
       ELSE LET useseq == IF IsList(st.h, uses) THEN ListItems(st.h, uses) ELSE <<uses>>
                offers == Get(st.h, st.root, "$offers")
                m == DictCopy(st.h, schema)
                h1 == IF HasKey(m.h, m.v, "properties") THEN m.h
                      ELSE LET e == Alloc(m.h, EmptyDict)
                           IN SetItem(e.h, m.v, "properties", e.v)
            IN [st |-> UsesLoop([st EXCEPT !.h = h1], m.v, offers, useseq, 1),
                schema |-> m.v]

(***************************************************************************)
(* What the library calls of the type checks answer on the instance        *)
(* strings of the model: int(s), float(s), the module's regular            *)
(* expressions, uuid.UUID(s), urlparse(s).scheme.                          *)
(***************************************************************************)
IntLiterals == { <<"42", 42>>, <<"-7", -7>> }
FloatLiterals == {"42", "-7", "1.5"}
DateTexts == {"2024-02-29"}
DateTimeTexts == {"2024-02-29T10:00:00Z"}
TimeTexts == {"10:00:00"}
UuidTexts == {"12345678-1234-5678-1234-567812345678"}
SchemeTexts == {"https://example.com/a"}
PointerTexts == {"#", "#/A", "#/A/x"}
ParsesInt(s) == \E p \in IntLiterals : p[1] = s
ParseInt(s) == (CHOOSE p \in IntLiterals : p[1] = s)[2]

\* The integers of the model are those TLC represents; every one of them is
\* below 2**32 and within the 64-bit ranges.
Int32Max == 2147483647
Int32Min == (-Int32Max) - 1
\* The value of an int or bool instance.
IntOf(v) == IF v.k = "bool" THEN (IF v.b THEN 1 ELSE 0) ELSE v.n

RECURSIVE validate_instance(_, _, _, _, _)
RECURSIVE validate_conditionals(_, _, _, _, _)
RECURSIVE validate_validation_addins(_, _, _, _, _)

\* if not cond: self.errors.append(d)
Expect(st, cond, d) == IF cond THEN st ELSE Err(st, d)

\* Lines 198-285: the primitive types; Null when schema_type is none of them.
Primitives ==
    {"any", "string", "number", "boolean", "null", "int32", "uint32", "int64",
     "uint64", "float", "double", "decimal", "date", "datetime", "time",
     "duration", "uuid", "uri", "binary", "jsonpointer"}
vi_primitive(st, instance, schema_type, path) ==
    LET got == TypeName(st.h, instance)
        E(msg) == Err(st, Diag(msg, path, got))
    IN CASE schema_type = "any" -> st
         [] schema_type = "string" ->
              Expect(st, IsStr(instance), Diag("Expected string at {path}, got {type}", path, got))
         [] schema_type = "number" ->
              Expect(st, ~(IsBool(instance) \/ ~IsIntOrFloat(instance)),
                     Diag("Expected number at {path}, got {type}", path, got))
         [] schema_type = "boolean" ->
              Expect(st, IsBool(instance), Diag("Expected boolean at {path}, got {type}", path, got))
         [] schema_type = "null" ->
              Expect(st, instance = Null, Diag("Expected null at {path}, got {type}", path, got))
         [] schema_type = "int32" ->
              IF ~IsInt(instance) THEN E("Expected int32 at {path}, got {type}")
              ELSE Expect(st, Int32Min <= IntOf(instance) /\ IntOf(instance) <= Int32Max,
                          Diag("int32 value at {path} out of range", path, ""))
         [] schema_type = "uint32" ->
              IF ~IsInt(instance) THEN E("Expected uint32 at {path}, got {type}")
              ELSE Expect(st, 0 <= IntOf(instance),
                          Diag("uint32 value at {path} out of range", path, ""))
         [] schema_type = "int64" ->
              IF ~IsStr(instance) THEN E("Expected int64 as string at {path}, got {type}")
              ELSE Expect(st, ParsesInt(instance.s), Diag("Invalid int64 format at {path}", path, ""))
         [] schema_type = "uint64" ->
              IF ~IsStr(instance) THEN E("Expected uint64 as string at {path}, got {type}")
              ELSE IF ~ParsesInt(instance.s) THEN Err(st, Diag("Invalid uint64 format at {path}", path, ""))
              ELSE Expect(st, 0 <= ParseInt(instance.s),
                          Diag("uint64 value at {path} out of range", path, ""))
         [] schema_type \in {"float", "double"} ->
              Expect(st, IsIntOrFloat(instance),
                     Diag("Expected {schema_type} at {path}, got {type}", path, schema_type \o "," \o got))
         [] schema_type = "decimal" ->
              IF ~IsStr(instance) THEN E("Expected decimal as string at {path}, got {type}")
              ELSE Expect(st, instance.s \in FloatLiterals, Diag("Invalid decimal format at {path}", path, ""))
         [] schema_type = "date" ->
              Expect(st, IsStr(instance) /\ instance.s \in DateTexts,
                     Diag("Expected date (YYYY-MM-DD) at {path}", path, ""))
         [] schema_type = "datetime" ->
              Expect(st, IsStr(instance) /\ instance.s \in DateTimeTexts,
                     Diag("Expected datetime (RFC3339) at {path}", path, ""))
         [] schema_type = "time" ->
              Expect(st, IsStr(instance) /\ instance.s \in TimeTexts,
                     Diag("Expected time (HH:MM:SS) at {path}", path, ""))
         [] schema_type = "duration" ->
              Expect(st, IsStr(instance), Diag("Expected duration as string at {path}", path, ""))
         [] schema_type = "uuid" ->
              IF ~IsStr(instance) THEN Err(st, Diag("Expected uuid as string at {path}", path, ""))
              ELSE Expect(st, instance.s \in UuidTexts, Diag("Invalid uuid format at {path}", path, ""))
         [] schema_type = "uri" ->
              IF ~IsStr(instance) THEN Err(st, Diag("Expected uri as string at {path}", path, ""))
              ELSE Expect(st, instance.s \in SchemeTexts, Diag("Invalid uri format at {path}", path, ""))
         [] schema_type = "binary" ->
              Expect(st, IsStr(instance), Diag("Expected binary (base64 string) at {path}", path, ""))
         [] schema_type = "jsonpointer" ->
              Expect(st, IsStr(instance) /\ instance.s \in PointerTexts,
                     Diag("Expected JSON pointer format at {path}", path, ""))

\* A sequence of nested calls self.validate_instance(inst, schema, path),
\* as a for loop over a container that the calls do not change makes them.
Job(inst, schema, path) == [inst |-> inst, schema |-> schema, path |-> path]
RECURSIVE ValidateAll(_, _, _)
ValidateAll(st, jobs, depth) ==
    IF st.exc # NoExc \/ jobs = <<>> THEN st
    ELSE ValidateAll(validate_instance(st, Head(jobs).inst, Head(jobs).schema,
                                       Head(jobs).path, depth + 1),
                     Tail(jobs), depth)
\* f"{path}[{idx}]" and f"{path}/{key}"
IdxPath(path, i) == path \o "[" \o ToString(i - 1) \o "]"
KeyPath(path, key) == path \o "/" \o key

\* Lines 293-295.
RECURSIVE RequiredLoop(_, _, _, _, _)
RequiredLoop(st, instance, req, i, path) ==
    IF i > Len(req) THEN st
    ELSE RequiredLoop(
            Expect(st, Contains(st.h, instance, req[i]),
                   Diag("Missing required property '{r}' at {path}", path, req[i].s)),
            instance, req, i + 1, path)
\* Lines 296-298: for prop, prop_schema in props.items().  The dict iterator
\* raises RuntimeError when the dict changed size since the loop began.
RECURSIVE PropsLoop(_, _, _, _, _, _, _)
PropsLoop(st, instance, props, i, n0, path, depth) ==
    IF st.exc # NoExc THEN st
    ELSE IF Len(Keys(st.h, props)) # n0 THEN Raise(st, "RuntimeError")
    ELSE IF i > n0 THEN st
    ELSE LET prop == Keys(st.h, props)[i]
             s1 == IF HasKey(st.h, instance, prop)
                   THEN validate_instance(st, GetItem(st.h, instance, prop),
                                          st.h[props.a].vs[i], KeyPath(path, prop),
                                          depth + 1)
                   ELSE st
         IN PropsLoop(s1, instance, props, i + 1, n0, path, depth)
\* key not in props
NotInProps(h, props, key) == props = Null \/ ~HasKey(h, props, key)
\* Lines 301-304.
RECURSIVE AdditionalFalseLoop(_, _, _, _, _)
AdditionalFalseLoop(st, instance, props, i, path) ==
    IF i > Len(Keys(st.h, instance)) THEN st
    ELSE LET key == Keys(st.h, instance)[i]
         IN AdditionalFalseLoop(
               Expect(st, ~NotInProps(st.h, props, key),
                      Diag("Additional property '{key}' not allowed at {path}", path, key)),
               instance, props, i + 1, path)
\* Lines 305-308: the jobs of the loop.
AdditionalJobs(h, instance, props, addl, path) ==
    LET o == h[instance.a]
        idx == SelectSeq([i \in 1..Len(o.ks) |-> i],
                         LAMBDA i : NotInProps(h, props, o.ks[i]))
    IN [j \in 1..Len(idx) |-> Job(o.vs[idx[j]], addl, KeyPath(path, o.ks[idx[j]]))]
\* Lines 312-313: any(len(self.validate_instance(val, has_schema, ...)) == 0
\* for prop, val in instance.items()); the generator stops at the first True.
RECURSIVE HasLoop(_, _, _, _, _, _)
HasLoop(st, instance, has_schema, i, path, depth) ==
    IF st.exc # NoExc \/ i > Len(Keys(st.h, instance)) THEN [st |-> st, valid |-> FALSE]
    ELSE LET o == st.h[instance.a]
             s1 == validate_instance(st, o.vs[i], has_schema, KeyPath(path, o.ks[i]),
                                     depth + 1)
         IN IF s1.exc = NoExc /\ Len(s1.errors) = 0 THEN [st |-> s1, valid |-> TRUE]
            ELSE HasLoop(s1, instance, has_schema, i + 1, path, depth)
\* Lines 317-323 (and 557-563): dependentRequired.
RECURSIVE DepsLoop(_, _, _, _, _, _)
DepsLoop(st, instance, prop_name, deps, j, path) ==
    IF j > Len(deps) THEN st
    ELSE DepsLoop(
            Expect(st, Contains(st.h, instance, deps[j]),
                   Diag("Property '{prop_name}' at {path} requires dependent property '{dep}'",
                        path, prop_name \o "," \o deps[j].s)),
            instance, prop_name, deps, j + 1, path)
RECURSIVE DependentLoop(_, _, _, _, _)
DependentLoop(st, instance, dr, i, path) ==
    IF i > Len(Keys(st.h, dr)) THEN st
    ELSE LET prop_name == Keys(st.h, dr)[i]
             required_deps == st.h[dr.a].vs[i]
             s1 == IF Contains(st.h, instance, Str(prop_name)) /\ IsList(st.h, required_deps)
                   THEN DepsLoop(st, instance, prop_name, ListItems(st.h, required_deps),
                                 1, path)
                   ELSE st
         IN DependentLoop(s1, instance, dr, i + 1, path)
dependent_required(st, schema, instance, path) ==
    IF HasKey(st.h, schema, "dependentRequired")
       /\ IsDict(st.h, GetItem(st.h, schema, "dependentRequired"))
    THEN DependentLoop(st, instance, GetItem(st.h, schema, "dependentRequired"), 1, path)
    ELSE st

\* json.dumps(a, sort_keys=True) == json.dumps(b, sort_keys=True): the same
\* JSON text but for the order of the keys (1, 1.0 and true differ).
RECURSIVE DumpEq(_, _, _)
DumpEq(h, a, b) ==
    IF a.k # b.k THEN FALSE
    ELSE IF a.k # "ref" THEN a = b
    ELSE LET x == h[a.a]
             y == h[b.a]
         IN IF x.k # y.k THEN FALSE
            ELSE IF x.k = "list"
            THEN /\ Len(x.xs) = Len(y.xs)
                 /\ \A i \in 1..Len(x.xs) : DumpEq(h, x.xs[i], y.xs[i])
            ELSE /\ Len(x.ks) = Len(y.ks)
                 /\ \A i \in 1..Len(x.ks) :
                       /\ InSeq(y.ks, x.ks[i])
                       /\ DumpEq(h, x.vs[i], y.vs[IndexOf(y.ks, x.ks[i], 1)])
\* len(serialized) != len(set(serialized))
HasDuplicates(h, xs) ==
    \E i \in 1..Len(xs) : \E j \in (i + 1)..Len(xs) : DumpEq(h, xs[i], xs[j])
ItemJobs(h, instance, items_schema, path) ==
    [i \in 1..Len(ListItems(h, instance)) |->
        Job(ListItems(h, instance)[i], items_schema, IdxPath(path, i))]

\* Lines 287-323, type object.  schema.get("properties", {}) and
\* schema.get("required", []): Null stands for the empty default of an
\* absent key.
\* Lines 293-295.
vi_required(st, instance, req, path) ==
    IF req = Null THEN st
    ELSE RequiredLoop(st, instance, ListItems(st.h, req), 1, path)
\* Lines 296-298.
vi_properties(st, instance, props, path, depth) ==
    IF props = Null THEN st
    ELSE PropsLoop(st, instance, props, 1, Len(Keys(st.h, props)), path, depth)
\* Lines 299-308.
vi_additional(st, instance, schema, props, path, depth) ==
    IF st.exc # NoExc \/ ~HasKey(st.h, schema, "additionalProperties") THEN st
    ELSE IF GetItem(st.h, schema, "additionalProperties") = Bool(FALSE)
    THEN AdditionalFalseLoop(st, instance, props, 1, path)
    ELSE IF IsDict(st.h, GetItem(st.h, schema, "additionalProperties"))
    THEN ValidateAll(st, AdditionalJobs(st.h, instance, props,
                                        GetItem(st.h, schema, "additionalProperties"), path),
                     depth)
    ELSE st
\* Lines 314-315: if not valid: self.errors.append(...)
HasDiagnosed(hs, path) ==
    IF hs.st.exc = NoExc /\ ~hs.valid
    THEN Err(hs.st, Diag("Object at {path} does not have any property satisfying 'has' schema", path, ""))
    ELSE hs.st
\* Lines 310-315.
vi_has(st, instance, schema, path, depth) ==
    IF st.exc = NoExc /\ HasKey(st.h, schema, "has")
    THEN HasDiagnosed(HasLoop(st, instance, GetItem(st.h, schema, "has"), 1, path, depth), path)
    ELSE st
\* Lines 317-323.
vi_dependent(st, schema, instance, path) ==
    IF st.exc # NoExc THEN st ELSE dependent_required(st, schema, instance, path)
vi_object(st, instance, schema, path, depth) ==
    IF ~IsDict(st.h, instance)
    THEN Err(st, Diag("Expected object at {path}, got {type}", path, TypeName(st.h, instance)))
    ELSE IF (HasKey(st.h, schema, "properties") /\ ~IsDict(st.h, Get(st.h, schema, "properties")))
            \/ (HasKey(st.h, schema, "required") /\ ~IsList(st.h, Get(st.h, schema, "required")))
    THEN Raise(st, "TypeError")
    ELSE vi_dependent(
            vi_has(
               vi_additional(
                  vi_properties(
                     vi_required(st, instance, Get(st.h, schema, "required"), path),
                     instance, Get(st.h, schema, "properties"), path, depth),
                  instance, schema, Get(st.h, schema, "properties"), path, depth),
               instance, schema, path, depth),
            schema, instance, path)
\* Lines 324-331: type array.
vi_array(st, instance, schema, path, depth) ==
    IF ~IsList(st.h, instance)
    THEN Err(st, Diag("Expected array at {path}, got {type}", path, TypeName(st.h, instance)))
    ELSE LET items_schema == Get(st.h, schema, "items")
         IN IF Truthy(st.h, items_schema)
            THEN ValidateAll(st, ItemJobs(st.h, instance, items_schema, path), depth)
            ELSE st
\* Lines 332-342: type set.
vi_set(st, instance, schema, path, depth) ==
    IF ~IsList(st.h, instance)
    THEN Err(st, Diag("Expected set (unique array) at {path}, got {type}", path, TypeName(st.h, instance)))
    ELSE LET s1 == Expect(st, ~HasDuplicates(st.h, ListItems(st.h, instance)),
                          Diag("Set at {path} contains duplicate items", path, ""))
             items_schema == Get(st.h, schema, "items")
         IN IF Truthy(st.h, items_schema)
            THEN ValidateAll(s1, ItemJobs(s1.h, instance, items_schema, path), depth)
            ELSE s1
\* Lines 343-350: type map.
vi_map(st, instance, schema, path, depth) ==
    IF ~IsDict(st.h, instance)
    THEN Err(st, Diag("Expected map (object) at {path}, got {type}", path, TypeName(st.h, instance)))
    ELSE LET values_schema == Get(st.h, schema, "values")
             o == st.h[instance.a]
         IN IF Truthy(st.h, values_schema)
            THEN ValidateAll(st, [i \in 1..Len(o.ks) |->
                                     Job(o.vs[i], values_schema, KeyPath(path, o.ks[i]))],
                             depth)
            ELSE st
\* Lines 351-361: type tuple.
vi_tuple(st, instance, schema, path, depth) ==
    IF ~IsList(st.h, instance)
    THEN Err(st, Diag("Expected tuple (array) at {path}, got {type}", path, TypeName(st.h, instance)))
    ELSE LET props == Get(st.h, schema, "properties")
             xs == ListItems(st.h, instance)
             expected_len == IF props = Null THEN 0 ELSE Len(Keys(st.h, props))
         IN IF HasKey(st.h, schema, "properties") /\ ~IsDict(st.h, props)
            THEN Raise(st, "TypeError")
            ELSE IF Len(xs) # expected_len
            THEN Err(st, Diag("Tuple at {path} length {len} does not equal expected {expected_len}",
                              path, ToString(Len(xs)) \o "," \o ToString(expected_len)))
            ELSE ValidateAll(st, [i \in 1..Len(xs) |->
                                     Job(xs[i], st.h[props.a].vs[i],
                                         KeyPath(path, st.h[props.a].ks[i]))],
                             depth)
\* Lines 196-363: the type-based validation.
vi_dispatch(st, instance, schema, schema_type, path, depth) ==
    IF schema_type \in Primitives THEN vi_primitive(st, instance, schema_type, path)
    ELSE CASE schema_type = "object" -> vi_object(st, instance, schema, path, depth)
           [] schema_type = "array" -> vi_array(st, instance, schema, path, depth)
           [] schema_type = "set" -> vi_set(st, instance, schema, path, depth)
           [] schema_type = "map" -> vi_map(st, instance, schema, path, depth)
           [] schema_type = "tuple" -> vi_tuple(st, instance, schema, path, depth)
           [] OTHER -> Err(st, Diag("Unsupported type '{schema_type}' at {path}", path, schema_type))
\* Lines 366-369: the validation addins.
vi_addins(st, instance, schema, path, depth) ==
    IF st.exc = NoExc /\ RootUses(st, ValidAddin)
    THEN validate_validation_addins(st, schema, instance, path, depth)
    ELSE st
\* Lines 371-373.
vi_const(st, instance, schema, path) ==
    IF st.exc = NoExc /\ HasKey(st.h, schema, "const")
    THEN Expect(st, PyEq(st.h, instance, GetItem(st.h, schema, "const")),
                Diag("Value at {path} does not equal const {const}", path,
                     Deref(st.h, GetItem(st.h, schema, "const"))))
    ELSE st
\* Lines 374-376.
vi_enum(st, instance, schema, path) ==
    IF st.exc = NoExc /\ HasKey(st.h, schema, "enum")
    THEN Expect(st, Contains(st.h, GetItem(st.h, schema, "enum"), instance),
                Diag("Value at {path} not in enum {enum}", path,
                     Deref(st.h, GetItem(st.h, schema, "enum"))))
    ELSE st
\* Lines 365-377: the validation addins, const and enum.
vi_tail(st, instance, schema, path, depth) ==
    vi_enum(vi_const(vi_addins(st, instance, schema, path, depth), instance, schema, path),
            instance, schema, path)

\* A new entry of the history of trial branches, written when the branch has
\* ended in state st: the buffer before the branch (backup), at the end of
\* the trial (inner) and now (after); of is the entry of the `if` that a
\* then/else belongs to.
Trial(st, kind, path, passed, before, inner, of) ==
    [st EXCEPT !.log = Append(@, [kind |-> kind, path |-> path, passed |-> passed,
                                  before |-> before, inner |-> inner,
                                  after |-> st.errors, of |-> of])]

\* Lines 151-160: the loop over the types of a union.
RECURSIVE UnionLoop(_, _, _, _, _, _, _)
UnionLoop(st, instance, ts, i, path, depth, union_errors) ==
    IF st.exc # NoExc \/ i > Len(ts)
    THEN [st |-> st, union_valid |-> FALSE, union_errors |-> union_errors]
    ELSE LET backup == st.errors
             tmp == Alloc(st.h, [k |-> "dict", ks |-> <<"type">>, vs |-> <<ts[i]>>])
             s1 == validate_instance(Probe([st EXCEPT !.h = tmp.h]),
                                     instance, tmp.v, path, depth + 1)
         IN IF s1.exc # NoExc
            THEN [st |-> s1, union_valid |-> FALSE, union_errors |-> union_errors]
            ELSE IF s1.errors = <<>>
            THEN [st |-> Trial(EndProbe(s1, s1.errors), "union", path, TRUE,
                               backup, s1.errors, 0),
                  union_valid |-> TRUE, union_errors |-> union_errors]
            ELSE UnionLoop(Trial(EndProbe(s1, backup), "union", path, FALSE,
                                 backup, s1.errors, 0),
                           instance, ts, i + 1, path, depth, union_errors \o s1.errors)
\* Lines 161-162: if not union_valid: self.errors.append(...)
UnionDiagnosed(r, path) ==
    IF r.st.exc = NoExc /\ ~r.union_valid
    THEN Err(r.st, DiagD("Instance at {path} does not match any type in union: {union_errors}",
                         path, "", r.union_errors))
    ELSE r.st
\* Lines 147-163.
vi_union(st, instance, schema_type, path, depth) ==
    UnionDiagnosed(UnionLoop(st, instance, ListItems(st.h, schema_type), 1, path, depth, <<>>),
                   path)

\* Lines 177-180.
RECURSIVE InheritedLoop(_, _, _, _, _)
InheritedLoop(st, base_props, derived_props, i, path) ==
    IF i > Len(Keys(st.h, base_props)) THEN st
    ELSE LET key == Keys(st.h, base_props)[i]
         IN InheritedLoop(
               Expect(st, ~(derived_props # Null /\ HasKey(st.h, derived_props, key)),
                      Diag("Property '{key}' is inherited via $extends and must not be redefined at {path}", path, key)),
               base_props, derived_props, i + 1, path)
\* Lines 169-184: returns the state, the effective schema and whether the
\* method returned.
vi_extends(st, schema, path) ==
    IF ~HasKey(st.h, schema, "$extends") THEN [st |-> st, schema |-> schema, ret |-> FALSE]
    ELSE
    LET ext == GetItem(st.h, schema, "$extends")
        base == IF IsStr(ext) THEN resolve_ref(st.h, st.root, ext) ELSE Null
        base_props == Get(st.h, base, "properties")
        derived_props == Get(st.h, schema, "properties")
    IN IF ~IsStr(ext) THEN [st |-> Raise(st, "AttributeError"), schema |-> schema, ret |-> TRUE]
       ELSE IF base = Null
       THEN [st |-> Err(st, Diag("Cannot resolve $extends {ref} at {path}", path, ext.s)),
             schema |-> schema, ret |-> TRUE]
       ELSE IF ~IsDict(st.h, base)
       THEN [st |-> Raise(st, "AttributeError"), schema |-> schema, ret |-> TRUE]
       ELSE IF (HasKey(st.h, base, "properties") /\ ~IsDict(st.h, base_props))
               \/ (HasKey(st.h, schema, "properties") /\ ~IsDict(st.h, derived_props))
       THEN [st |-> Raise(st, "TypeError"), schema |-> schema, ret |-> TRUE]
       ELSE LET s1 == IF base_props = Null THEN st
                      ELSE InheritedLoop(st, base_props, derived_props, 1, path)
                merged == DictCopy(s1.h, base)
                h1 == DelItem(Update(merged.h, merged.v, schema), merged.v, "$extends")
            IN [st |-> [s1 EXCEPT !.h = h1], schema |-> merged.v, ret |-> FALSE]

\* Lines 196-377: the type-based validation and what follows it.
vi_checks(st, instance, schema, schema_type, path, depth) ==
    vi_tail(vi_dispatch(st, instance, schema, schema_type, path, depth),
            instance, schema, path, depth)
\* Lines 192-194: u is what _apply_uses returned, or the schema as it was
\* when the instance has no $uses; instance.pop("$uses").
vi_pop_uses(u, has_uses, instance, schema_type, path, depth) ==
    IF u.st.exc # NoExc THEN u.st
    ELSE vi_checks(IF has_uses THEN [u.st EXCEPT !.h = DelItem(u.st.h, instance, "$uses")]
                   ELSE u.st,
                   instance, u.schema, schema_type, path, depth)
\* Lines 186-194: e is what the $extends step returned.
vi_extended(e, instance, schema_type, path, depth) ==
    IF e.ret THEN e.st
    ELSE IF Get(e.st.h, e.schema, "abstract") = Bool(TRUE)
    THEN Err(e.st, Diag("Abstract schema at {path} cannot be used for instance validation", path, ""))
    ELSE vi_pop_uses(IF InstanceHasUses(e.st, instance)
                     THEN apply_uses(e.st, e.schema, instance)
                     ELSE [st |-> e.st, schema |-> e.schema],
                     InstanceHasUses(e.st, instance), instance, schema_type, path, depth)
\* Lines 165-377, for a schema_type that is neither a dict nor a list.
vi_typed(st, instance, schema0, schema_type, path, depth) ==
    IF ~IsStr(schema_type)
    THEN Err(st, Diag("Schema at {path} has invalid 'type'", path, ""))
    ELSE vi_extended(vi_extends(st, schema0, path), instance, schema_type.s, path, depth)

\* The method has returned in state st.
Returned(st) == [st |-> st, schema |-> Null, type |-> Null, ret |-> TRUE]
\* Lines 137-140 on new_schema, with merged_props = mp, the fresh copy of
\* resolved["properties"].
MergedInto(mp, new_schema) ==
    SetItem(IF HasKey(mp.h, new_schema, "properties")
            THEN Update(mp.h, mp.v, GetItem(mp.h, new_schema, "properties"))
            ELSE mp.h,
            new_schema, "properties", mp.v)
MergeProps(h, new_schema, resolved) ==
    IF HasKey(h, resolved, "properties")
    THEN MergedInto(DictCopy(h, GetItem(h, resolved, "properties")), new_schema)
    ELSE h
\* Lines 141-142: schema = new_schema; schema_type = schema.get("type")
vi_retyped(st, new_schema) ==
    [st |-> st, schema |-> new_schema, type |-> Get(st.h, new_schema, "type"), ret |-> FALSE]
\* Lines 135-142: n is the copy dict(schema).  dict(x) and update(x) raise
\* TypeError for an x that is no dict.
vi_new_schema(st, n, resolved) ==
    IF HasKey(n.h, resolved, "properties")
       /\ (~IsDict(n.h, GetItem(n.h, resolved, "properties"))
           \/ (HasKey(n.h, n.v, "properties") /\ ~IsDict(n.h, GetItem(n.h, n.v, "properties"))))
    THEN Returned(Raise(st, "TypeError"))
    ELSE vi_retyped([st EXCEPT !.h = MergeProps(SetItem(n.h, n.v, "type",
                                                        Get(n.h, resolved, "type")),
                                                n.v, resolved)],
                    n.v)
\* Lines 129-145, type is a dict: the state, the schema and the type to go on
\* with, and whether the method returned.
vi_type_dict(st, schema, schema_type, path) ==
    IF ~HasKey(st.h, schema_type, "$ref")
    THEN Returned(Err(st, Diag("Schema at {path} has invalid 'type'", path, "")))
    ELSE IF ~IsStr(GetItem(st.h, schema_type, "$ref")) THEN Returned(Raise(st, "AttributeError"))
    ELSE IF resolve_ref(st.h, st.root, GetItem(st.h, schema_type, "$ref")) = Null
    THEN Returned(Err(st, Diag("Cannot resolve $ref {ref} at {path}/type", path,
                               GetItem(st.h, schema_type, "$ref").s)))
    ELSE IF ~IsDict(st.h, resolve_ref(st.h, st.root, GetItem(st.h, schema_type, "$ref")))
    THEN Returned(Raise(st, "AttributeError"))
    ELSE vi_new_schema(st, DictCopy(st.h, schema),
                       resolve_ref(st.h, st.root, GetItem(st.h, schema_type, "$ref")))
\* Lines 147-377: t is the schema and the type to go on with.
vi_plain(t, instance, path, depth) ==
    IF t.ret THEN t.st
    ELSE IF IsList(t.st.h, t.type) THEN vi_union(t.st, instance, t.type, path, depth)
    ELSE vi_typed(t.st, instance, t.schema, t.type, path, depth)
\* Lines 129-377: the dispatch on the kind of type.
vi_kind(st, instance, schema, schema_type, path, depth) ==
    vi_plain(IF IsDict(st.h, schema_type)
             THEN vi_type_dict(st, schema, schema_type, path)
             ELSE [st |-> st, schema |-> schema, type |-> schema_type, ret |-> FALSE],
             instance, path, depth)
\* Lines 122-128: c is what the conditionals step returned.
vi_schema_type(c, instance, schema, path, depth) ==
    IF c.st.exc # NoExc THEN c.st
    ELSE IF ~Truthy(c.st.h, Get(c.st.h, schema, "type")) /\ c.hasConditionals THEN c.st
    ELSE vi_kind(IF Truthy(c.st.h, Get(c.st.h, schema, "type")) THEN c.st
                 ELSE Err(c.st, Diag("Schema at {path} has no 'type'", path, "")),
                 instance, schema, Get(c.st.h, schema, "type"), path, depth)
\* Lines 117-167: the conditionals, then the dispatch on the kind of type.
vi_type(st, instance, schema, path, depth) ==
    vi_schema_type(IF RootUses(st, CondAddin)
                   THEN validate_conditionals(st, schema, instance, path, depth)
                   ELSE [st |-> st, hasConditionals |-> FALSE],
                   instance, schema, path, depth)

\* The exception a schema that is no dict raises: setdefault under the
\* extended meta-schema (line 86), `"$ref" in schema` (line 109) for a
\* scalar, schema.get (line 123) for a string or a list.
NonDictSchemaExc(st, schema) ==
    IF RootMetaIs(st, ExtendedMeta) \/ schema.k \in {"str", "ref"}
    THEN "AttributeError" ELSE "TypeError"

\* Lines 108-377: after the meta-schema steps.
vi_ref(st, instance, schema, path, depth) ==
    IF HasKey(st.h, schema, "$ref")
    THEN IF ~IsStr(GetItem(st.h, schema, "$ref")) THEN Raise(st, "AttributeError")
         ELSE IF resolve_ref(st.h, st.root, GetItem(st.h, schema, "$ref")) = Null
         THEN Err(st, Diag("Cannot resolve $ref {ref} at {path}", path,
                           GetItem(st.h, schema, "$ref").s))
         ELSE validate_instance(st, instance,
                                resolve_ref(st.h, st.root, GetItem(st.h, schema, "$ref")),
                                path, depth + 1)
    ELSE vi_type(st, instance, schema, path, depth)
\* validate_instance(instance, schema, path), lines 68-377.  depth counts the
\* frames of validate_instance on the stack.
validate_instance(st, instance, schema, path, depth) ==
    IF st.exc # NoExc THEN st
    ELSE IF depth > MaxDepth THEN Raise(st, "RecursionError")
    ELSE IF ~IsDict(st.h, schema) THEN Raise(st, NonDictSchemaExc(st, schema))
    ELSE vi_ref(vi_core_meta(vi_validation_meta(vi_extended_meta(st, schema), instance, schema),
                             instance, path),
                instance, schema, path, depth)

(***************************************************************************)
(* _validate_conditionals, lines 379-451.                                  *)
(***************************************************************************)
\* Lines 389-393.
RECURSIVE AllOfLoop(_, _, _, _, _, _)
AllOfLoop(st, instance, subschemas, i, path, depth) ==
    IF st.exc # NoExc \/ i > Len(subschemas) THEN st
    ELSE LET backup == st.errors
             s1 == validate_instance(st, instance, subschemas[i],
                                     path \o "/allOf[" \o ToString(i - 1) \o "]", depth + 1)
             s2 == IF s1.exc = NoExc /\ s1.errors # <<>>
                   THEN [s1 EXCEPT !.errors = backup \o s1.errors]
                   ELSE s1
         IN AllOfLoop(s2, instance, subschemas, i + 1, path, depth)
\* Lines 399-408.
RECURSIVE AnyOfLoop(_, _, _, _, _, _, _)
AnyOfLoop(st, instance, subschemas, i, path, depth, errors_any) ==
    IF st.exc # NoExc \/ i > Len(subschemas)
    THEN [st |-> st, valid |-> FALSE, errors_any |-> errors_any]
    ELSE LET backup == st.errors
             s1 == validate_instance(Probe(st), instance, subschemas[i],
                                     path \o "/anyOf[" \o ToString(i - 1) \o "]", depth + 1)
         IN IF s1.exc # NoExc THEN [st |-> s1, valid |-> FALSE, errors_any |-> errors_any]
            ELSE IF s1.errors = <<>>
            THEN [st |-> Trial(EndProbe(s1, s1.errors), "anyOf", path, TRUE,
                               backup, s1.errors, 0),
                  valid |-> TRUE, errors_any |-> errors_any]
            ELSE AnyOfLoop(Trial(EndProbe(s1, backup), "anyOf", path, FALSE,
                                 backup, s1.errors, 0),
                           instance, subschemas, i + 1, path, depth,
                           Append(errors_any,
                                  DiagD("anyOf[{idx}]: {errors}", "", ToString(i - 1), s1.errors)))
\* Lines 416-424.
RECURSIVE OneOfLoop(_, _, _, _, _, _, _, _)
OneOfLoop(st, instance, subschemas, i, path, depth, valid_count, errors_one) ==
    IF st.exc # NoExc \/ i > Len(subschemas)
    THEN [st |-> st, valid_count |-> valid_count, errors_one |-> errors_one]
    ELSE LET backup == st.errors
             s1 == validate_instance(Probe(st), instance, subschemas[i],
                                     path \o "/oneOf[" \o ToString(i - 1) \o "]", depth + 1)
             ok == s1.errors = <<>>
         IN IF s1.exc # NoExc
            THEN [st |-> s1, valid_count |-> valid_count, errors_one |-> errors_one]
            ELSE OneOfLoop(Trial(EndProbe(s1, backup), "oneOf", path, ok,
                                 backup, s1.errors, 0),
                           instance, subschemas, i + 1, path, depth,
                           IF ok THEN valid_count + 1 ELSE valid_count,
                           IF ok THEN errors_one
                           ELSE Append(errors_one,
                                       DiagD("oneOf[{idx}]: {errors}", "", ToString(i - 1), s1.errors)))
\* Lines 386-393.
vc_allOf(st, schema, instance, path, depth) ==
    IF st.exc # NoExc \/ ~HasKey(st.h, schema, "allOf") THEN st
    ELSE IF ~IsList(st.h, GetItem(st.h, schema, "allOf")) THEN Raise(st, "TypeError")
    ELSE AllOfLoop(st, instance, ListItems(st.h, GetItem(st.h, schema, "allOf")), 1, path, depth)
\* Lines 409-410: if not valid: self.errors.append(...)
AnyOfDiagnosed(r, path) ==
    IF r.st.exc = NoExc /\ ~r.valid
    THEN Err(r.st, DiagD("Instance at {path} does not satisfy anyOf: {errors_any}",
                         path, "", r.errors_any))
    ELSE r.st
\* Lines 394-410.
vc_anyOf(st, schema, instance, path, depth) ==
    IF st.exc # NoExc \/ ~HasKey(st.h, schema, "anyOf") THEN st
    ELSE IF ~IsList(st.h, GetItem(st.h, schema, "anyOf")) THEN Raise(st, "TypeError")
    ELSE AnyOfDiagnosed(AnyOfLoop(st, instance, ListItems(st.h, GetItem(st.h, schema, "anyOf")),
                                  1, path, depth, <<>>),
                        path)
\* Lines 425-427: if valid_count != 1: self.errors.append(...)
OneOfDiagnosed(r, path) ==
    IF r.st.exc = NoExc /\ r.valid_count # 1
    THEN Err(r.st, DiagD("Instance at {path} must match exactly one subschema in oneOf; matched {valid_count}. Details: {errors_one}",
                         path, ToString(r.valid_count), r.errors_one))
    ELSE r.st
\* Lines 411-427.
vc_oneOf(st, schema, instance, path, depth) ==
    IF st.exc # NoExc \/ ~HasKey(st.h, schema, "oneOf") THEN st
    ELSE IF ~IsList(st.h, GetItem(st.h, schema, "oneOf")) THEN Raise(st, "TypeError")
    ELSE OneOfDiagnosed(OneOfLoop(st, instance, ListItems(st.h, GetItem(st.h, schema, "oneOf")),
                                  1, path, depth, 0, <<>>),
                        path)
\* Faulty variant of vc_not: the test of line 434 is inverted.
vc_not_inverted(st, schema, instance, path, depth) ==
    IF st.exc # NoExc \/ ~HasKey(st.h, schema, "not") THEN st
    ELSE LET backup == st.errors
             s1 == validate_instance(Probe(st), instance,
                                     GetItem(st.h, schema, "not"), path \o "/not", depth + 1)
             s2 == IF s1.errors # <<>>
                   THEN Err(EndProbe(s1, backup),
                            Diag("Instance at {path} should not validate against 'not' schema", path, ""))
                   ELSE EndProbe(s1, backup)
         IN IF s1.exc # NoExc THEN s1
            ELSE Trial(s2, "not", path, s1.errors = <<>>, backup, s1.errors, 0)
\* Lines 428-437.
vc_not(st, schema, instance, path, depth) ==
    IF st.exc # NoExc \/ ~HasKey(st.h, schema, "not") THEN st
    ELSE LET backup == st.errors
             s1 == validate_instance(Probe(st), instance,
                                     GetItem(st.h, schema, "not"), path \o "/not", depth + 1)
             s2 == IF s1.errors = <<>>
                   THEN Err(EndProbe(s1, backup),
                            Diag("Instance at {path} should not validate against 'not' schema", path, ""))
                   ELSE EndProbe(s1, backup)
         IN IF s1.exc # NoExc THEN s1
            ELSE Trial(s2, "not", path, s1.errors = <<>>, backup, s1.errors, 0)
\* Faulty variant of vc_if: line 444 keeps the diagnostics of the probe
\* (self.errors = backup + self.errors).
vc_if_leaky(st, schema, instance, path, depth) ==
    IF st.exc # NoExc \/ ~HasKey(st.h, schema, "if") THEN st
    ELSE LET backup == st.errors
             s1 == validate_instance(Probe(st), instance,
                                     GetItem(st.h, schema, "if"), path \o "/if", depth + 1)
             if_valid == s1.errors = <<>>
             s2 == Trial(EndProbe(s1, backup \o s1.errors), "if", path, if_valid,
                         backup, s1.errors, 0)
             me == Len(s2.log)
         IN IF s1.exc # NoExc THEN s1
            ELSE IF if_valid
            THEN IF HasKey(s2.h, schema, "then")
                 THEN validate_instance(
                         Trial(s2, "then", path, TRUE, backup, <<>>, me),
                         instance, GetItem(s2.h, schema, "then"), path \o "/then", depth + 1)
                 ELSE s2
            ELSE IF HasKey(s2.h, schema, "else")
                 THEN validate_instance(
                         Trial(s2, "else", path, FALSE, backup, <<>>, me),
                         instance, GetItem(s2.h, schema, "else"), path \o "/else", depth + 1)
                 ELSE s2
\* Lines 438-450.
vc_if(st, schema, instance, path, depth) ==
    IF st.exc # NoExc \/ ~HasKey(st.h, schema, "if") THEN st
    ELSE LET backup == st.errors
             s1 == validate_instance(Probe(st), instance,
                                     GetItem(st.h, schema, "if"), path \o "/if", depth + 1)
             if_valid == s1.errors = <<>>
             s2 == Trial(EndProbe(s1, backup), "if", path, if_valid, backup, s1.errors, 0)
             me == Len(s2.log)
         IN IF s1.exc # NoExc THEN s1
            ELSE IF if_valid
            THEN IF HasKey(s2.h, schema, "then")
                 THEN validate_instance(
                         Trial(s2, "then", path, TRUE, backup, <<>>, me),
                         instance, GetItem(s2.h, schema, "then"), path \o "/then", depth + 1)
                 ELSE s2
            ELSE IF HasKey(s2.h, schema, "else")
                 THEN validate_instance(
                         Trial(s2, "else", path, FALSE, backup, <<>>, me),
                         instance, GetItem(s2.h, schema, "else"), path \o "/else", depth + 1)
                 ELSE s2
CompositionKeys == {"allOf", "anyOf", "oneOf", "not", "if"}
\* Returns the state and hasConditionals.
validate_conditionals(st, schema, instance, path, depth) ==
    [st |-> vc_if(vc_not(vc_oneOf(vc_anyOf(vc_allOf(st, schema, instance, path, depth),
                                           schema, instance, path, depth),
                                  schema, instance, path, depth),
                         schema, instance, path, depth),
                  schema, instance, path, depth),
     hasConditionals |-> \E key \in CompositionKeys : HasKey(st.h, schema, key)]

(***************************************************************************)
(* _validate_validation_addins, lines 453-585.                             *)
(***************************************************************************)
\* The regular expressions of the model's schemas: those re.compile accepts,
\* and the strings pattern.search finds a match in.
ValidRegexes == {"^a", "^x"}
RegexHits == { <<"^a", "a">>, <<"^a", "ab">>, <<"^a", "abc">>, <<"^x", "x">> }
\* Strings in the order Python's < gives them.
StrOrder == <<"-7", "1.5", "42">>
\* The strings holding "@", and those urlparse finds a scheme in.
AtTexts == {"a@b"}
NumericTypes ==
    {"number", "integer", "float", "double", "decimal", "int32", "uint32",
     "int64", "uint64", "int128", "uint128"}

\* a < b, a == b, a > b, or the TypeError of an unordered pair.
Cmp(a, b) ==
    IF IsIntOrFloat(a) /\ IsIntOrFloat(b)
    THEN (IF Tenths(a) < Tenths(b) THEN "lt" ELSE IF Tenths(a) = Tenths(b) THEN "eq" ELSE "gt")
    ELSE IF IsStr(a) /\ IsStr(b)
    THEN (IF a.s = b.s THEN "eq"
          ELSE IF IndexOf(StrOrder, a.s, 1) < IndexOf(StrOrder, b.s, 1) THEN "lt" ELSE "gt")
    ELSE "exc"
\* The try/except blocks of lines 460-491: bad holds the outcomes of the
\* comparison that are diagnosed with msg, an exception is diagnosed with excmsg.
Checked(st, outcome, bad, msg, arg, excmsg, path) ==
    IF outcome = "exc" THEN Err(st, Diag(excmsg, path, ""))
    ELSE IF outcome \in bad THEN Err(st, Diag(msg, path, arg))
    ELSE st
Abs(n) == IF n < 0 THEN -n ELSE n
\* instance % m != 0 ("gt"), == 0 ("eq"), or an exception.
ModOutcome(a, m) ==
    IF IsIntOrFloat(a) /\ IsIntOrFloat(m)
    THEN (IF Tenths(m) = 0 THEN "exc"
          ELSE IF Tenths(a) % Abs(Tenths(m)) # 0 THEN "gt" ELSE "eq")
    ELSE "exc"
\* Lines 460-465.
va_minimum(st, schema, instance, path) ==
    IF HasKey(st.h, schema, "minimum")
    THEN Checked(st, Cmp(instance, GetItem(st.h, schema, "minimum")), {"lt"},
                 "Value at {path} is less than minimum {minimum}",
                 Get(st.h, schema, "minimum"),
                 "Cannot compare value at {path} with minimum constraint", path)
    ELSE st
\* Lines 466-471.
va_maximum(st, schema, instance, path) ==
    IF HasKey(st.h, schema, "maximum")
    THEN Checked(st, Cmp(instance, GetItem(st.h, schema, "maximum")), {"gt"},
                 "Value at {path} is greater than maximum {maximum}",
                 Get(st.h, schema, "maximum"),
                 "Cannot compare value at {path} with maximum constraint", path)
    ELSE st
\* instance <= schema.get(key, float("-inf")) and instance >= schema.get(key,
\* float("inf")): the outcome of comparing with the bound, or with the
\* infinity that stands for an absent one.
CmpBound(st, schema, instance, key, absent) ==
    IF HasKey(st.h, schema, key) THEN Cmp(instance, GetItem(st.h, schema, key))
    ELSE IF IsIntOrFloat(instance) THEN absent ELSE "exc"
\* Lines 472-478.
va_exclusiveMinimum(st, schema, instance, path) ==
    IF Get(st.h, schema, "exclusiveMinimum") = Bool(TRUE)
    THEN Checked(st, CmpBound(st, schema, instance, "minimum", "gt"), {"lt", "eq"},
                 "Value at {path} is not greater than exclusive minimum {minimum}",
                 Get(st.h, schema, "minimum"),
                 "Cannot evaluate exclusiveMinimum constraint at {path}", path)
    ELSE st
\* Lines 479-485.
va_exclusiveMaximum(st, schema, instance, path) ==
    IF Get(st.h, schema, "exclusiveMaximum") = Bool(TRUE)
    THEN Checked(st, CmpBound(st, schema, instance, "maximum", "lt"), {"gt", "eq"},
                 "Value at {path} is not less than exclusive maximum {maximum}",
                 Get(st.h, schema, "maximum"),
                 "Cannot evaluate exclusiveMaximum constraint at {path}", path)
    ELSE st
\* Lines 486-491.
va_multipleOf(st, schema, instance, path) ==
    IF HasKey(st.h, schema, "multipleOf")
    THEN Checked(st, ModOutcome(instance, GetItem(st.h, schema, "multipleOf")), {"gt"},
                 "Value at {path} is not a multiple of {multipleOf}",
                 Get(st.h, schema, "multipleOf"),
                 "Cannot evaluate multipleOf constraint at {path}", path)
    ELSE st
\* Lines 459-491.
va_numeric(st, schema, instance, path) ==
    IF ~(IsStr(Get(st.h, schema, "type")) /\ Get(st.h, schema, "type").s \in NumericTypes)
    THEN st
    ELSE va_multipleOf(
            va_exclusiveMaximum(
               va_exclusiveMinimum(
                  va_maximum(va_minimum(st, schema, instance, path), schema, instance, path),
                  schema, instance, path),
               schema, instance, path),
            schema, instance, path)

\* len(v): -1 stands for the TypeError of a value that has no len().
PyLen(h, v) ==
    IF IsStr(v) THEN Len(v.s)
    ELSE IF IsDict(h, v) THEN Len(h[v.a].ks)
    ELSE IF IsList(h, v) THEN Len(h[v.a].xs)
    ELSE -1
\* if key in schema: if len(instance) < schema[key] (less) or > schema[key].
LenCheck(st, schema, instance, key, less, msg, path) ==
    IF st.exc # NoExc \/ ~HasKey(st.h, schema, key) THEN st
    ELSE LET n == PyLen(st.h, instance)
             bound == GetItem(st.h, schema, key)
         IN IF n = -1 \/ ~IsIntOrFloat(bound) THEN Raise(st, "TypeError")
            ELSE Expect(st, ~(IF less THEN 10 * n < Tenths(bound) ELSE 10 * n > Tenths(bound)),
                        Diag(msg, path, bound))
\* Lines 500-503.
va_pattern(st, schema, instance, path) ==
    IF st.exc # NoExc \/ ~HasKey(st.h, schema, "pattern") THEN st
    ELSE LET pat == GetItem(st.h, schema, "pattern")
         IN IF ~IsStr(pat) THEN Raise(st, "TypeError")
            ELSE IF pat.s \notin ValidRegexes THEN Raise(st, "re.error")
            ELSE IF ~IsStr(instance) THEN Raise(st, "TypeError")
            ELSE Expect(st, <<pat.s, instance.s>> \in RegexHits,
                        Diag("String at {path} does not match pattern {pattern}", path, pat.s))
\* Lines 504-512.
va_format(st, schema, instance, path) ==
    IF st.exc # NoExc \/ ~HasKey(st.h, schema, "format") THEN st
    ELSE LET fmt == GetItem(st.h, schema, "format")
         IN IF fmt = Str("email")
            THEN IF IsStr(instance)
                 THEN Expect(st, instance.s \in AtTexts,
                             Diag("String at {path} does not appear to be a valid email", path, ""))
                 ELSE IF instance.k = "ref"
                 THEN Expect(st, Contains(st.h, instance, Str("@")),
                             Diag("String at {path} does not appear to be a valid email", path, ""))
                 ELSE Raise(st, "TypeError")
            ELSE IF fmt = Str("uri")
            THEN IF IsStr(instance)
                 THEN Expect(st, instance.s \in SchemeTexts,
                             Diag("String at {path} does not appear to be a valid uri", path, ""))
                 ELSE Raise(st, "AttributeError")
            ELSE st
\* Lines 493-512.
va_string(st, schema, instance, path) ==
    IF Get(st.h, schema, "type") # Str("string") THEN st
    ELSE va_format(
            va_pattern(
               LenCheck(LenCheck(st, schema, instance, "minLength", TRUE,
                                 "String at {path} shorter than minLength {minLength}", path),
                        schema, instance, "maxLength", FALSE,
                        "String at {path} longer than maxLength {maxLength}", path),
               schema, instance, path),
            schema, instance, path)
\* Lines 521-524.  Iterating a string gives its characters, a dict its keys.
va_uniqueItems(st, schema, instance, path) ==
    IF st.exc # NoExc \/ Get(st.h, schema, "uniqueItems") # Bool(TRUE) THEN st
    ELSE IF instance.k \notin {"str", "ref"} THEN Raise(st, "TypeError")
    ELSE Expect(st,
                ~HasDuplicates(st.h,
                               IF IsStr(instance)
                               THEN [i \in 1..Len(instance.s) |-> Str(Chars(instance.s)[i])]
                               ELSE IF IsList(st.h, instance) THEN ListItems(st.h, instance)
                               ELSE <<>>),
                Diag("Array at {path} does not have unique items", path, ""))
\* Lines 514-524.
va_array(st, schema, instance, path) ==
    IF Get(st.h, schema, "type") # Str("array") THEN st
    ELSE va_uniqueItems(
            LenCheck(LenCheck(st, schema, instance, "minItems", TRUE,
                              "Array at {path} has fewer items than minItems {minItems}", path),
                     schema, instance, "maxItems", FALSE,
                     "Array at {path} has more items than maxItems {maxItems}", path),
            schema, instance, path)

\* Lines 541-543 (and 572-574): the jobs of the loop over instance.items()
\* for one pattern.
PatternJobs(h, instance, pattern_str, pattern_schema, path) ==
    LET o == h[instance.a]
        idx == SelectSeq([i \in 1..Len(o.ks) |-> i],
                         LAMBDA i : <<pattern_str, o.ks[i]>> \in RegexHits)
    IN [j \in 1..Len(idx) |-> Job(o.vs[idx[j]], pattern_schema, KeyPath(path, o.ks[idx[j]]))]
\* Lines 538-545 (and 569-576): an invalid expression is diagnosed (msg) and
\* the loop goes on; an instance that has no items() raises AttributeError.
RECURSIVE PatternLoop(_, _, _, _, _, _, _)
PatternLoop(st, instance, pp, i, msg, path, depth) ==
    IF st.exc # NoExc \/ i > Len(Keys(st.h, pp)) THEN st
    ELSE LET pattern_str == Keys(st.h, pp)[i]
             s1 == IF pattern_str \notin ValidRegexes
                   THEN Err(st, Diag(msg, path, pattern_str))
                   ELSE IF ~IsDict(st.h, instance) THEN Raise(st, "AttributeError")
                   ELSE ValidateAll(st, PatternJobs(st.h, instance, pattern_str,
                                                    st.h[pp.a].vs[i], path),
                                    depth)
         IN PatternLoop(s1, instance, pp, i + 1, msg, path, depth)
va_patterns(st, schema, instance, key, msg, path, depth) ==
    IF st.exc = NoExc /\ HasKey(st.h, schema, key) /\ IsDict(st.h, GetItem(st.h, schema, key))
    THEN PatternLoop(st, instance, GetItem(st.h, schema, key), 1, msg, path, depth)
    ELSE st
\* Lines 548-554 (and 579-585): propertyNames / keyNames; label is the text
\* before the name in the path.
va_names(st, schema, instance, key, label, msg, path, depth) ==
    IF st.exc # NoExc \/ ~HasKey(st.h, schema, key) THEN st
    ELSE LET ns == GetItem(st.h, schema, key)
         IN IF ~IsDict(st.h, ns) \/ Get(st.h, ns, "type") # Str("string")
            THEN Err(st, Diag(msg, path, ""))
            ELSE IF ~IsDict(st.h, instance) THEN Raise(st, "AttributeError")
            ELSE ValidateAll(st, [i \in 1..Len(Keys(st.h, instance)) |->
                                     Job(Str(Keys(st.h, instance)[i]), ns,
                                         path \o "/" \o label \o "(" \o Keys(st.h, instance)[i] \o ")")],
                             depth)
\* Lines 527-534: len(instance.keys()).
KeysCheck(st, schema, instance, key, less, msg, path) ==
    IF st.exc # NoExc \/ ~HasKey(st.h, schema, key) THEN st
    ELSE IF ~IsDict(st.h, instance) THEN Raise(st, "AttributeError")
    ELSE LenCheck(st, schema, instance, key, less, msg, path)
\* Lines 557-563: dependentRequired again, on an instance of any kind
\* (`prop_name in instance` raises TypeError on a scalar that is no string).
va_dependent(st, schema, instance, path) ==
    IF st.exc # NoExc THEN st
    ELSE IF IsDict(st.h, instance) THEN dependent_required(st, schema, instance, path)
    ELSE IF /\ HasKey(st.h, schema, "dependentRequired")
            /\ IsDict(st.h, GetItem(st.h, schema, "dependentRequired"))
            /\ Keys(st.h, GetItem(st.h, schema, "dependentRequired")) # <<>>
    THEN IF instance.k \in {"ref", "str"}
         THEN DependentLoop(st, instance, GetItem(st.h, schema, "dependentRequired"), 1, path)
         ELSE Raise(st, "TypeError")
    ELSE st
\* Lines 526-563.
va_object(st, schema, instance, path, depth) ==
    IF Get(st.h, schema, "type") # Str("object") THEN st
    ELSE va_dependent(
            va_names(
               va_patterns(
                  KeysCheck(KeysCheck(st, schema, instance, "minProperties", TRUE,
                                      "Object at {path} has fewer properties than minProperties {minProperties}", path),
                            schema, instance, "maxProperties", FALSE,
                            "Object at {path} has more properties than maxProperties {maxProperties}", path),
                  schema, instance, "patternProperties",
                  "Invalid regular expression '{pattern_str}' in patternProperties at {path}",
                  path, depth),
               schema, instance, "propertyNames", "propertyName",
               "propertyNames schema must be of type string at {path}", path, depth),
            schema, instance, path)
\* Lines 566-585.
va_map(st, schema, instance, path, depth) ==
    IF Get(st.h, schema, "type") # Str("map") THEN st
    ELSE va_names(
            va_patterns(st, schema, instance, "patternKeys",
                        "Invalid regular expression '{pattern_str}' in patternKeys at {path}",
                        path, depth),
            schema, instance, "keyNames", "keyName",
            "keyNames schema must be of type string at {path}", path, depth)
validate_validation_addins(st, schema, instance, path, depth) ==
    va_map(va_object(va_array(va_string(va_numeric(st, schema, instance, path),
                                        schema, instance, path),
                              schema, instance, path),
                     schema, instance, path, depth),
           schema, instance, path, depth)

(***************************************************************************)
(* JSONStructureSchemaCoreValidator.  The interpreter state of a validate  *)
(* call:                                                                   *)
(*   h        the heap                                                     *)
(*   doc      self.doc                                                     *)
(*   errors   self.errors                                                  *)
(*   exc      the exception being propagated ("" when none)                *)
(*   enabled  self.enabled_extensions                                      *)
(*   cfg      the constructor's arguments (allow_dollar, allow_import,     *)
(*            import_map, extended) and reversed, the order in which this  *)
(*            process iterates its sets of strings                         *)
(* validate is called with source_text left None, so _locate finds no line *)
(* and a diagnostic is its message and its location.                       *)
(***************************************************************************)
PRIMITIVE_TYPES ==
    {"string", "number", "boolean", "null", "int8", "uint8", "int16", "uint16",
     "int32", "uint32", "int64", "uint64", "int128", "uint128", "float8",
     "float", "double", "decimal", "date", "datetime", "time", "duration",
     "uuid", "uri", "binary", "jsonpointer", "any"}
COMPOUND_TYPES == {"object", "array", "set", "map", "tuple", "choice"}
VALID_FORMATS ==
    {"ipv4", "ipv6", "email", "idn-email", "hostname", "idn-hostname",
     "iri", "iri-reference", "uri-template", "relative-json-pointer", "regex"}
KNOWN_EXTENSIONS ==
    {"JSONStructureImport", "JSONStructureAlternateNames", "JSONStructureUnits",
     CondAddin, ValidAddin}
\* COMPOSITION_KEYWORDS and the union of the validation keyword sets of
\* lines 485-489.  They are Python sets of strings: a for loop visits them in
\* an order that is fixed within a process and differs between processes.
\* The model keeps two orders, one the reverse of the other, which gives
\* every pair of keywords both of its relative orders.
COMPOSITION_KEYWORDS == <<"allOf", "anyOf", "oneOf", "not", "if", "then", "else">>
all_validation_keywords ==
    <<"minimum", "maximum", "exclusiveMinimum", "exclusiveMaximum", "multipleOf",
      "minLength", "pattern", "format",
      "minItems", "maxItems", "uniqueItems", "contains", "minContains", "maxContains",
      "minProperties", "maxProperties", "minEntries", "maxEntries",
      "dependentRequired", "patternProperties", "patternKeys",
      "propertyNames", "keyNames", "has", "default">>
SetOrder(st, names) ==
    IF st.cfg.reversed THEN [i \in 1..Len(names) |-> names[Len(names) + 1 - i]]
    ELSE names

\* The strings of the model's documents that ABSOLUTE_URI_REGEX finds a match
\* in, those identifier_regex matches without and only with allow_dollar, and
\* those that hold a given word.
PeopleUri == "https://example.com/people.json"
AddressUri == "https://example.com/address.json"
SelfUri == "https://example.com/self.json"
DefsUri == "https://example.com/defs.json"
NestedUri == "https://example.com/nested.json"
AliasUri == "https://example.com/alias.json"
GoneUri == "https://example.com/gone.json"
UnknownUri == "https://example.com/unknown.json"
DocId == "https://example.com/doc.json"
ImportdefsUri == "https://example.com/importdefs.json"
CoreOrgMeta == "https://json-structure.org/meta/core/v0/#"
AbsoluteUris ==
    {PeopleUri, AddressUri, SelfUri, DefsUri, NestedUri, AliasUri, GoneUri, UnknownUri, DocId,
     ImportdefsUri,
     CoreOrgMeta, ExtendedMeta, ValidationMeta, CoreMeta}
Identifiers ==
    {"a", "b", "A", "B", "T", "NS", "X", "Loop", "Person", "Address", "firstName", "lastName",
     "address", "street", "city"}
DollarIdentifiers == {"$a"}
TextsWith(word) ==
    CASE word = "extended" -> {ExtendedMeta}
      [] word = "validation" -> {ValidationMeta}

\* Sequencing: a statement runs unless an exception is propagating; a for
\* loop over 1..n whose body does not change what it iterates.
Then(st, Stmt(_)) == IF st.exc # NoExc THEN st ELSE Stmt(st)
RECURSIVE ForEach(_, _, _, _)
ForEach(Body(_, _), st, i, n) ==
    IF i > n \/ st.exc # NoExc THEN st
    ELSE ForEach(Body, Body(st, i), i + 1, n)

\* _err, lines 904-915, with _locate returning None.
err(st, message, arg, location) ==
    [st EXCEPT !.errors = Append(@, Diag(message, location, arg))]

\* _check_enabled_extensions, lines 144-162.  `word in schema_uri` is a
\* substring test on a string, a membership test on a list or dict, and a
\* TypeError on any other value; `ext in self.KNOWN_EXTENSIONS` hashes ext.
WordIn(h, word, c) ==
    IF IsStr(c) THEN c.s \in TextsWith(word) ELSE Contains(h, c, Str(word))
check_enabled_extensions(st, doc) ==
    LET schema_uri == IF HasKey(st.h, doc, "$schema") THEN GetItem(st.h, doc, "$schema")
                      ELSE Str("")
        uses == Get(st.h, doc, "$uses")
        s1 == IF schema_uri.k \notin {"str", "ref"} THEN Raise(st, "TypeError")
              ELSE IF /\ WordIn(st.h, "extended", schema_uri)
                         \/ WordIn(st.h, "validation", schema_uri)
                      /\ WordIn(st.h, "validation", schema_uri)
              THEN [st EXCEPT !.enabled = @ \cup {CondAddin, ValidAddin}]
              ELSE st
    IN IF s1.exc # NoExc \/ ~HasKey(st.h, doc, "$uses") \/ ~IsList(st.h, uses) THEN s1
       ELSE ForEach(LAMBDA s, i :
                       LET ext == ListItems(s.h, uses)[i]
                       IN IF ext.k = "ref" THEN Raise(s, "TypeError")
                          ELSE IF IsStr(ext) /\ ext.s \in KNOWN_EXTENSIONS
                          THEN [s EXCEPT !.enabled = @ \cup {ext.s}]
                          ELSE s,
                    s1, 1, Len(ListItems(st.h, uses)))

\* _check_uses, lines 164-176.
check_uses(st, uses, path) ==
    IF ~IsList(st.h, uses) THEN err(st, "$uses must be an array.", "", path)
    ELSE ForEach(LAMBDA s, i :
                    LET ext == ListItems(s.h, uses)[i]
                    IN IF ~IsStr(ext)
                       THEN err(s, "$uses[{idx}] must be a string.", ToString(i - 1),
                                IdxPath(path, i))
                       ELSE IF s.cfg.extended /\ ext.s \notin KNOWN_EXTENSIONS
                       THEN err(s, "Unknown extension '{ext}' in $uses.", ext.s,
                                IdxPath(path, i))
                       ELSE s,
                 st, 1, Len(ListItems(st.h, uses)))

\* _check_required_top_level_keywords, lines 178-185.
check_required_top_level_keywords(st, obj, location) ==
    LET s1 == IF HasKey(st.h, obj, "$schema") THEN st
              ELSE err(st, "Missing required '$schema' keyword at root.", "", location)
    IN IF HasKey(st.h, obj, "$id") THEN s1
       ELSE err(s1, "Missing required '$id' keyword at root.", "", location)

\* _check_is_absolute_uri, lines 187-195.
check_is_absolute_uri(st, value, keyword_name, location) ==
    IF ~IsStr(value) THEN err(st, "'{keyword_name}' must be a string.", keyword_name, location)
    ELSE IF value.s \notin AbsoluteUris
    THEN err(st, "'{keyword_name}' must be an absolute URI.", keyword_name, location)
    ELSE st

\* A schema that is a type name only.
Ty(name) == Dict(<< <<"type", Str(name)>> >>)

\* The files that an import_map can name (a name that is not here is a file
\* that open() does not find) and EXTERNAL_SCHEMAS, lines 261-293.
SchemaHead(id) == << <<"$schema", Str(CoreOrgMeta)>>, <<"$id", Str(id)>> >>
AddressProperties ==
    Dict(<< <<"street", Ty("string")>>, <<"city", Ty("string")>> >>)
FileNames == {"self.json", "defs.json", "nested.json", "alias.json"}
FileTree(name) ==
    CASE name = "self.json" ->
           \* a named root type that imports its own URI
           Dict(SchemaHead(SelfUri)
                \o << <<"name", Str("Loop")>>, <<"type", Str("object")>>,
                      <<"properties", Dict(<< <<"a", Ty("string")>> >>)>>,
                      <<"$import", Str(SelfUri)>> >>)
      [] name = "defs.json" ->
           \* definitions, and $importdefs of its own URI beside them
           Dict(SchemaHead(DefsUri)
                \o << <<"definitions", Dict(<< <<"X", Ty("string")>> >>)>>,
                      <<"$importdefs", Str(DefsUri)>> >>)
      [] name = "nested.json" ->
           \* a namespace among the definitions that holds the $importdefs
           Dict(SchemaHead(NestedUri)
                \o << <<"definitions",
                        Dict(<< <<"NS", Dict(<< <<"$importdefs", Str(NestedUri)>> >>)>> >>)>> >>)
      [] name = "alias.json" ->
           \* a named root type with a definition that imports its own URI
           Dict(<< <<"name", Str("A")>>, <<"type", Str("string")>>,
                   <<"definitions",
                     Dict(<< <<"B", Dict(<< <<"$import", Str(AliasUri)>> >>)>> >>)>> >>)
EXTERNAL_SCHEMAS(uri) ==
    CASE uri = PeopleUri ->
           Dict(SchemaHead(PeopleUri)
                \o << <<"name", Str("Person")>>, <<"type", Str("object")>>,
                      <<"properties",
                        Dict(<< <<"firstName", Ty("string")>>, <<"lastName", Ty("string")>>,
                                <<"address",
                                  Dict(<< <<"$ref", Str("#/definitions/Address")>> >>)>> >>)>>,
                      <<"definitions",
                        Dict(<< <<"Address",
                                  Dict(<< <<"name", Str("Address")>>,
                                          <<"type", Str("object")>>,
                                          <<"properties", AddressProperties>> >>)>> >>)>> >>)
      [] uri = AddressUri ->
           Dict(SchemaHead(AddressUri)
                \o << <<"name", Str("Address")>>, <<"type", Str("object")>>,
                      <<"properties", AddressProperties>> >>)

\* self._err(...) called by a frame at depth: the call needs the frame of
\* _err and, in it, the call of self.errors.append.
err_at(st, depth, message, arg, location) ==
    IF depth + 2 > MaxFrames THEN Raise(st, "RecursionError")
    ELSE err(st, message, arg, location)

\* The depth json.load(f) of line 256 reaches above the frame that calls
\* _fetch_external_schema: the frames of _fetch_external_schema, load, loads,
\* decode and raw_decode, the call of the scanner, and one level for each
\* object or array the scanner is inside of.
MaxOf(S) == IF S = {} THEN 0 ELSE CHOOSE m \in S : \A x \in S : x <= m
RECURSIVE Nesting(_)
Nesting(t) ==
    IF t.k = "dict" THEN 1 + MaxOf({ Nesting(t.vs[i]) : i \in 1..Len(t.vs) })
    ELSE IF t.k = "list" THEN 1 + MaxOf({ Nesting(t.xs[i]) : i \in 1..Len(t.xs) })
    ELSE 0
LoadFrames(t) == 6 + Nesting(t)

\* _fetch_external_schema, lines 247-294, called by a frame at depth: the
\* state and the document (Null is None).  `except Exception` catches the
\* FileNotFoundError of open() and the RecursionError of a load that the
\* stack has no room for; the handler runs in the frame of
\* _fetch_external_schema.  EXTERNAL_SCHEMAS.get(uri) is a call in that frame.
fetch_external_schema(st, uri, depth) ==
    IF \E i \in 1..Len(st.cfg.import_map) : st.cfg.import_map[i][1] = uri
    THEN LET file == st.cfg.import_map[CHOOSE i \in 1..Len(st.cfg.import_map) :
                                          st.cfg.import_map[i][1] = uri][2]
         IN IF file \in FileNames /\ depth + LoadFrames(FileTree(file)) <= MaxFrames
            THEN LET loaded == Load(st.h, FileTree(file))
                 IN [st |-> [st EXCEPT !.h = loaded.h], v |-> loaded.v]
            ELSE [st |-> err_at(st, depth + 1,
                                "Failed to load imported schema from {file}: {e}", file,
                                "#/import"),
                  v |-> Null]
    ELSE IF depth + 2 > MaxFrames THEN [st |-> Raise(st, "RecursionError"), v |-> Null]
    ELSE IF uri \in {PeopleUri, AddressUri}
    THEN LET loaded == Load(st.h, EXTERNAL_SCHEMAS(uri))
         IN [st |-> [st EXCEPT !.h = loaded.h], v |-> loaded.v]
    ELSE [st |-> st, v |-> Null]

\* Lines 222-234: imported_defs, a new dict for $import and the fetched
\* document's own definitions for $importdefs.  A name that is a list or a
\* dict cannot be a key.
imported_defs(st, key, external) ==
    LET h == st.h
        defs == Get(h, external, "definitions")
        has_defs == HasKey(h, external, "definitions") /\ IsDict(h, defs)
        new == Alloc(h, EmptyDict)
    IN IF key = "$import"
       THEN IF HasKey(h, external, "type") /\ HasKey(h, external, "name")
            THEN IF ~IsStr(GetItem(h, external, "name"))
                 THEN [st |-> Raise(st, "TypeError"), v |-> Null]
                 ELSE LET h1 == SetItem(new.h, new.v, GetItem(h, external, "name").s, external)
                      IN [st |-> [st EXCEPT !.h = IF has_defs THEN Update(h1, new.v, defs)
                                                  ELSE h1],
                          v |-> new.v]
            ELSE [st |-> [st EXCEPT !.h = IF has_defs THEN Update(new.h, new.v, defs)
                                          ELSE new.h],
                  v |-> new.v]
       ELSE IF has_defs THEN [st |-> st, v |-> defs]
       ELSE [st |-> [st EXCEPT !.h = new.h], v |-> new.v]

\* Lines 235-239: defs is imported_defs; for k, v in imported_defs.items():
\* if k not in obj: obj[k] = v; then del obj[key].
merge_imported(defs, obj, key) ==
    Then(ForEach(LAMBDA s, i :
                    IF HasKey(s.h, obj, defs.st.h[defs.v.a].ks[i]) THEN s
                    ELSE [s EXCEPT !.h = SetItem(@, obj, defs.st.h[defs.v.a].ks[i],
                                                 defs.st.h[defs.v.a].vs[i])],
                 defs.st, 1, Len(defs.st.h[defs.v.a].ks)),
         LAMBDA s : [s EXCEPT !.h = DelItem(@, obj, key)])
\* Lines 218-239: fetched is what _fetch_external_schema returned.
import_fetched(fetched, obj, key, uri, path, depth) ==
    IF fetched.st.exc # NoExc THEN fetched.st
    ELSE IF fetched.v = Null
    THEN err_at(fetched.st, depth, "Unable to fetch external schema from {uri}.", uri,
                KeyPath(path, key))
    ELSE merge_imported(imported_defs(fetched.st, key, fetched.v), obj, key)
\* Lines 207-239: one key of the snapshot list(obj.keys()).
import_key(st, obj, key, path, depth) ==
    IF key \notin {"$import", "$importdefs"} THEN st
    ELSE IF ~st.cfg.allow_import
    THEN err_at(st, depth,
                "JSONStructureImport keyword '{key}' encountered but allow_import not enabled.",
                key, KeyPath(path, key))
    ELSE IF ~IsStr(GetItem(st.h, obj, key))
    THEN err_at(st, depth, "JSONStructureImport keyword '{key}' value must be a string URI.",
                key, KeyPath(path, key))
    ELSE IF GetItem(st.h, obj, key).s \notin AbsoluteUris
    THEN err_at(st, depth, "JSONStructureImport keyword '{key}' value must be an absolute URI.",
                key, KeyPath(path, key))
    ELSE import_fetched(fetch_external_schema(st, GetItem(st.h, obj, key).s, depth),
                        obj, key, GetItem(st.h, obj, key).s, path, depth)

RECURSIVE process_imports(_, _, _, _)
\* Lines 241-242: for k, v in obj.items(): self._process_imports(v, f"{path}/{k}")
import_children(st, obj, path, depth) ==
    ForEach(LAMBDA s, i :
               process_imports(s, s.h[obj.a].vs[i], KeyPath(path, s.h[obj.a].ks[i]), depth + 1),
            st, 1, Len(Keys(st.h, obj)))
\* Lines 206-239: for key in list(obj.keys()), keys being the snapshot.
import_keys(st, obj, keys, path, depth) ==
    ForEach(LAMBDA s, i : import_key(s, obj, keys[i], path, depth), st, 1, Len(keys))
\* _process_imports, lines 197-245; depth is the depth of its frame.  The
\* frame of a dict or a list makes calls of its own (list(obj.keys()),
\* enumerate(obj)), which need one level more.
process_imports(st, obj, path, depth) ==
    CASE st.exc # NoExc -> st
      [] st.exc = NoExc /\ obj.k # "ref" ->
           IF depth > MaxFrames THEN Raise(st, "RecursionError") ELSE st
      [] st.exc = NoExc /\ obj.k = "ref" /\ depth + 1 > MaxFrames ->
           Raise(st, "RecursionError")
      [] st.exc = NoExc /\ IsDict(st.h, obj) /\ depth + 1 <= MaxFrames ->
           import_children(import_keys(st, obj, Keys(st.h, obj), path, depth),
                           obj, path, depth)
      [] st.exc = NoExc /\ IsList(st.h, obj) /\ depth + 1 <= MaxFrames ->
           ForEach(LAMBDA s, i :
                      process_imports(s, ListItems(s.h, obj)[i], IdxPath(path, i), depth + 1),
                   st, 1, Len(ListItems(st.h, obj)))

(***************************************************************************)
(* The import expansion of the instance validator, lines 608-701 of        *)
(* json_structure_instance_validator.py.  cfg holds self.allow_import and  *)
(* self.import_map; st.fetched is the history of the URIs that             *)
(* _fetch_external_schema was called with.  Lines 633-645 are the text of  *)
(* the schema validator's lines 222-239 (imported_defs, merge_imported).   *)
(***************************************************************************)
SIMULATED_SCHEMAS(uri) ==
    CASE uri = PeopleUri ->
           Dict(<< <<"$schema", Str(CoreMeta)>>, <<"$id", Str(PeopleUri)>>,
                   <<"name", Str("Person")>>, <<"type", Str("object")>>,
                   <<"properties",
                     Dict(<< <<"firstName", Ty("string")>>, <<"lastName", Ty("string")>>,
                             <<"address", Dict(<< <<"$ref", Str("#/Address")>> >>)>> >>)>>,
                   <<"definitions",
                     Dict(<< <<"Address",
                               Dict(<< <<"name", Str("Address")>>,
                                       <<"type", Str("object")>>,
                                       <<"properties", AddressProperties>> >>)>> >>)>> >>)
      [] uri = ImportdefsUri ->
           Dict(<< <<"$schema", Str(CoreMeta)>>, <<"$id", Str(ImportdefsUri)>>,
                   <<"definitions",
                     Dict(<< <<"LibraryType",
                               Dict(<< <<"name", Str("LibraryType")>>,
                                       <<"type", Str("string")>> >>)>> >>)>> >>)
\* _fetch_external_schema, lines 654-701: the state and the document (Null
\* is None).
iv_fetch_external_schema(st, cfg, uri) ==
    LET s0 == [st EXCEPT !.fetched = Append(@, uri)]
    IN IF \E i \in 1..Len(cfg.import_map) : cfg.import_map[i][1] = uri
       THEN LET file == cfg.import_map[CHOOSE i \in 1..Len(cfg.import_map) :
                                          cfg.import_map[i][1] = uri][2]
            IN IF file \in FileNames
               THEN LET loaded == Load(s0.h, FileTree(file))
                    IN [st |-> [s0 EXCEPT !.h = loaded.h], v |-> loaded.v]
               ELSE [st |-> Err(s0, Diag("Failed to load imported schema from {file}: {e}",
                                         "", file)),
                     v |-> Null]
       ELSE IF uri \in {PeopleUri, ImportdefsUri}
       THEN LET loaded == Load(s0.h, SIMULATED_SCHEMAS(uri))
            IN [st |-> [s0 EXCEPT !.h = loaded.h], v |-> loaded.v]
       ELSE [st |-> s0, v |-> Null]
\* Lines 617-646: one key of the snapshot list(obj.keys()).
iv_import_key(st, cfg, obj, key, path) ==
    IF key \notin {"$import", "$importdefs"} THEN st
    ELSE IF ~cfg.allow_import
    THEN Err(st, Diag("JSONStructureImport keyword '{key}' encountered but allow_import not enabled at {path}",
                      KeyPath(path, key), key))
    ELSE IF ~IsStr(GetItem(st.h, obj, key))
    THEN Err(st, Diag("JSONStructureImport keyword '{key}' value must be a string URI at {path}",
                      KeyPath(path, key), key))
    ELSE IF GetItem(st.h, obj, key).s \notin AbsoluteUris
    THEN Err(st, Diag("JSONStructureImport keyword '{key}' value must be an absolute URI at {path}",
                      KeyPath(path, key), key))
    ELSE LET got == iv_fetch_external_schema(st, cfg, GetItem(st.h, obj, key).s)
         IN IF got.v = Null
            THEN Err(got.st, Diag("Unable to fetch external schema from {uri} at {path}",
                                  KeyPath(path, key), GetItem(st.h, obj, key).s))
            ELSE merge_imported(imported_defs(got.st, key, got.v), obj, key)
\* _process_imports, lines 608-652; depth is the depth of the recursion,
\* which the interpreter bounds.
RECURSIVE iv_process_imports(_, _, _, _, _)
iv_process_imports(st, cfg, obj, path, depth) ==
    IF st.exc # NoExc THEN st
    ELSE IF depth > MaxFrames THEN Raise(st, "RecursionError")
    ELSE IF IsDict(st.h, obj)
    THEN LET keys == Keys(st.h, obj)
             s1 == ForEach(LAMBDA s, i : iv_import_key(s, cfg, obj, keys[i], path),
                           st, 1, Len(keys))
         IN IF s1.exc # NoExc THEN s1
            ELSE ForEach(LAMBDA s, i :
                            iv_process_imports(s, cfg, s.h[obj.a].vs[i],
                                               KeyPath(path, s.h[obj.a].ks[i]), depth + 1),
                         s1, 1, Len(Keys(s1.h, obj)))
    ELSE IF IsList(st.h, obj)
    THEN ForEach(LAMBDA s, i :
                    iv_process_imports(s, cfg, ListItems(s.h, obj)[i], IdxPath(path, i),
                                       depth + 1),
                 st, 1, Len(ListItems(st.h, obj)))
    ELSE st
\* Faulty variant of init_imports: the imports are expanded whatever
\* allow_import says.
init_imports_always(st, cfg) ==
    iv_process_imports(st, [cfg EXCEPT !.allow_import = TRUE], st.root, "#", 1)
\* __init__, lines 65-66.
init_imports(st, cfg) ==
    IF cfg.allow_import THEN iv_process_imports(st, cfg, st.root, "#", 1) ELSE st

\* _check_json_pointer, lines 848-860: the walk over parts[1:].
RECURSIVE PointerWalk(_, _, _, _)
PointerWalk(st, cur, parts, path) ==
    IF parts = <<>> THEN st
    ELSE LET p == Concat(Replace2(Replace2(Head(parts), <<"~", "1">>, <<"/">>),
                                  <<"~", "0">>, <<"~">>))
         IN IF ~IsDict(st.h, cur)
            THEN err(st, "JSON Pointer segment '/{p}' not applicable to non-object.", p, path)
            ELSE IF ~HasKey(st.h, cur, p)
            THEN err(st, "JSON Pointer segment '/{p}' not found.", p, path)
            ELSE PointerWalk(st, GetItem(st.h, cur, p), Tail(parts), path)
\* _check_json_pointer, lines 834-860.
check_json_pointer(st, pointer, doc, path) ==
    IF ~IsStr(pointer) THEN err(st, "JSON Pointer must be a string.", "", path)
    ELSE LET cs == Chars(pointer.s)
         IN IF cs = <<>> \/ Head(cs) # "#"
            THEN err(st, "JSON Pointer must start with '#' when referencing the same document.",
                     "", path)
            ELSE IF pointer.s = "#" THEN st
            ELSE PointerWalk(st, doc, Tail(Split(cs, "/")), path)

\* _check_offers, lines 862-881 (the keys of a JSON object are strings).
check_offers(st, offers, path) ==
    IF ~IsDict(st.h, offers) THEN err(st, "$offers must be an object.", "", path)
    ELSE ForEach(LAMBDA s, i :
            LET addin_name == Keys(s.h, offers)[i]
                addin_val == s.h[offers.a].vs[i]
            IN IF IsStr(addin_val)
               THEN check_json_pointer(s, addin_val, s.doc, KeyPath(path, addin_name))
               ELSE IF IsList(s.h, addin_val)
               THEN ForEach(LAMBDA t, j :
                       LET pointer == ListItems(t.h, addin_val)[j]
                       IN IF ~IsStr(pointer)
                          THEN err(t, "$offers/{addin_name}[{idx}] must be a string (JSON Pointer).",
                                   addin_name \o "," \o ToString(j - 1),
                                   IdxPath(KeyPath(path, addin_name), j))
                          ELSE check_json_pointer(t, pointer, t.doc,
                                                  IdxPath(KeyPath(path, addin_name), j)),
                       s, 1, Len(ListItems(s.h, addin_val)))
               ELSE err(s, "$offers/{addin_name} must be a string or array of strings.",
                        addin_name, KeyPath(path, addin_name)),
            st, 1, Len(Keys(st.h, offers)))

\* _has_composition_keywords, lines 314-318.
has_composition_keywords(h, obj) ==
    \E i \in 1..Len(COMPOSITION_KEYWORDS) : HasKey(h, obj, COMPOSITION_KEYWORDS[i])
\* self.identifier_regex.match(name), lines 90-93.
identifier_match(st, name) ==
    name \in Identifiers \/ (st.cfg.allow_dollar /\ name \in DollarIdentifiers)
\* if key in obj: Stmt(obj[key])
IfHas(st, obj, key, Stmt(_, _)) ==
    IF HasKey(st.h, obj, key) THEN Stmt(st, GetItem(st.h, obj, key)) ELSE st
\* isinstance(val, int) and val >= 0 (a bool is an int).
NonNegativeInt(val) == IsInt(val) /\ Tenths(val) >= 0

RECURSIVE validate_schema(_, _, _, _)

\* A value that must be a schema object: validated as one, or diagnosed with
\* message at path.
SchemaAt(st, val, path, message, arg) ==
    IF IsDict(st.h, val) THEN validate_schema(st, val, FALSE, path)
    ELSE err(st, message, arg, path)

\* _check_composition_keywords, lines 433-477.
check_composition_keywords(st, obj, path) ==
    IF ~st.cfg.extended THEN st
    ELSE IF CondAddin \notin st.enabled
    THEN LET keys == SetOrder(st, COMPOSITION_KEYWORDS)
         IN ForEach(LAMBDA s, i :
                       IF HasKey(s.h, obj, keys[i])
                       THEN err(s, "Conditional composition keyword '{key}' requires JSONStructureConditionalComposition extension.",
                                keys[i], KeyPath(path, keys[i]))
                       ELSE s,
                    st, 1, Len(keys))
    ELSE LET lists == <<"allOf", "anyOf", "oneOf">>
             single == <<"if", "then", "else">>
             s1 == ForEach(LAMBDA s, i :
                      IfHas(s, obj, lists[i], LAMBDA t, val :
                         IF ~IsList(t.h, val)
                         THEN err(t, "'{key}' must be an array.", lists[i], KeyPath(path, lists[i]))
                         ELSE IF ListItems(t.h, val) = <<>>
                         THEN err(t, "'{key}' array cannot be empty.", lists[i],
                                  KeyPath(path, lists[i]))
                         ELSE ForEach(LAMBDA u, j :
                                         SchemaAt(u, ListItems(u.h, val)[j],
                                                  IdxPath(KeyPath(path, lists[i]), j),
                                                  "'{key}' array items must be schema objects.",
                                                  lists[i]),
                                      t, 1, Len(ListItems(t.h, val)))),
                      st, 1, 3)
             s2 == IfHas(s1, obj, "not", LAMBDA t, val :
                      SchemaAt(t, val, KeyPath(path, "not"), "'not' must be a schema object.", ""))
         IN ForEach(LAMBDA s, i :
                       IfHas(s, obj, single[i], LAMBDA t, val :
                          SchemaAt(t, val, KeyPath(path, single[i]),
                                   "'{key}' must be a schema object.", single[i])),
                    s2, 1, 3)

\* _check_numeric_validation, lines 520-538.
check_numeric_validation(st, obj, path, type_name) ==
    LET keys == <<"minimum", "maximum", "exclusiveMinimum", "exclusiveMaximum", "multipleOf">>
        expects_string == type_name \in {"int64", "uint64", "int128", "uint128", "decimal"}
    IN ForEach(LAMBDA s, i :
          IfHas(s, obj, keys[i], LAMBDA t, val :
             IF expects_string
             THEN IF ~IsStr(val)
                  THEN err(t, "'{key}' for type '{type_name}' must be a string.",
                           keys[i] \o "," \o type_name, KeyPath(path, keys[i]))
                  ELSE t
             ELSE IF ~IsIntOrFloat(val)
             THEN err(t, "'{key}' must be a number.", keys[i], KeyPath(path, keys[i]))
             ELSE IF keys[i] = "multipleOf" /\ Tenths(val) <= 0
             THEN err(t, "'multipleOf' must be a positive number.", "", KeyPath(path, keys[i]))
             ELSE t),
          st, 1, Len(keys))

\* _check_string_validation, lines 540-565.
check_string_validation(st, obj, path) ==
    LET s1 == IfHas(st, obj, "minLength", LAMBDA t, val :
                 IF ~NonNegativeInt(val)
                 THEN err(t, "'minLength' must be a non-negative integer.", "",
                          KeyPath(path, "minLength"))
                 ELSE t)
        s2 == IfHas(s1, obj, "pattern", LAMBDA t, val :
                 IF ~IsStr(val)
                 THEN err(t, "'pattern' must be a string.", "", KeyPath(path, "pattern"))
                 ELSE IF val.s \notin ValidRegexes
                 THEN err(t, "'pattern' is not a valid regular expression: {e}", "",
                          KeyPath(path, "pattern"))
                 ELSE t)
    IN IfHas(s2, obj, "format", LAMBDA t, val :
          IF ~IsStr(val) THEN err(t, "'format' must be a string.", "", KeyPath(path, "format"))
          ELSE IF val.s \notin VALID_FORMATS
          THEN err(t, "Unknown format '{val}'.", val.s, KeyPath(path, "format"))
          ELSE t)

\* for key in keys: if key in obj and it is no non-negative integer, a
\* diagnostic (lines 571-575, 591-595, 616-618).
NonNegativeKey(st, obj, key, path) ==
    IfHas(st, obj, key, LAMBDA t, val :
       IF ~NonNegativeInt(val)
       THEN err(t, "'{key}' must be a non-negative integer.", key, KeyPath(path, key))
       ELSE t)

\* _check_array_validation, lines 567-598.
check_array_validation(st, obj, path, type_name) ==
    LET s1 == NonNegativeKey(NonNegativeKey(st, obj, "minItems", path), obj, "maxItems", path)
        s2 == IfHas(s1, obj, "uniqueItems", LAMBDA t, val :
                 IF ~IsBool(val)
                 THEN err(t, "'uniqueItems' must be a boolean.", "", KeyPath(path, "uniqueItems"))
                 ELSE IF type_name = "set" /\ ~val.b
                 THEN err(t, "'uniqueItems' cannot be false for 'set' type.", "",
                          KeyPath(path, "uniqueItems"))
                 ELSE t)
        s3 == IfHas(s2, obj, "contains", LAMBDA t, val :
                 SchemaAt(t, val, KeyPath(path, "contains"),
                          "'contains' must be a schema object.", ""))
        keys == <<"minContains", "maxContains">>
    IN ForEach(LAMBDA s, i :
          IF ~HasKey(s.h, obj, keys[i]) THEN s
          ELSE LET t == NonNegativeKey(s, obj, keys[i], path)
               IN IF HasKey(s.h, obj, "contains") THEN t
                  ELSE err(t, "'{key}' requires 'contains' to be present.", keys[i],
                           KeyPath(path, keys[i])),
          s3, 1, 2)

\* Lines 608-618, 638-647 and 663-668: the keyword of the other type.
WrongKeyword(st, type_name, key, forMap, forObject, path) ==
    IF type_name = "map" /\ key = forObject
    THEN err(st, "Use '{other}' for map type instead of '{key}'.", forMap \o "," \o key,
             KeyPath(path, key))
    ELSE IF type_name = "object" /\ key = forMap
    THEN err(st, "Use '{other}' for object type instead of '{key}'.", forObject \o "," \o key,
             KeyPath(path, key))
    ELSE st

\* _check_object_validation, lines 600-684.
check_object_validation(st, obj, path, type_name) ==
    LET isMap == type_name = "map"
        counts == <<IF isMap THEN "minEntries" ELSE "minProperties",
                    IF isMap THEN "maxEntries" ELSE "maxProperties",
                    "minProperties", "maxProperties", "minEntries", "maxEntries">>
        s1 == ForEach(LAMBDA s, i :
                 IF ~HasKey(s.h, obj, counts[i]) THEN s
                 ELSE NonNegativeKey(
                         WrongKeyword(
                            WrongKeyword(s, type_name, counts[i], "minEntries", "minProperties", path),
                            type_name, counts[i], "maxEntries", "maxProperties", path),
                         obj, counts[i], path),
                 st, 1, Len(counts))
        s2 == IfHas(s1, obj, "dependentRequired", LAMBDA t, val :
                 IF type_name # "object"
                 THEN err(t, "'dependentRequired' only applies to object type.", "",
                          KeyPath(path, "dependentRequired"))
                 ELSE IF ~IsDict(t.h, val)
                 THEN err(t, "'dependentRequired' must be an object.", "",
                          KeyPath(path, "dependentRequired"))
                 ELSE ForEach(LAMBDA u, i :
                         LET prop == Keys(u.h, val)[i]
                             deps == u.h[val.a].vs[i]
                             at == KeyPath(KeyPath(path, "dependentRequired"), prop)
                         IN IF ~IsList(u.h, deps)
                            THEN err(u, "'dependentRequired/{prop}' must be an array.", prop, at)
                            ELSE ForEach(LAMBDA v, j :
                                    IF IsStr(ListItems(v.h, deps)[j]) THEN v
                                    ELSE err(v, "'dependentRequired/{prop}[{idx}]' must be a string.",
                                             prop \o "," \o ToString(j - 1), IdxPath(at, j)),
                                    u, 1, Len(ListItems(u.h, deps))),
                         t, 1, Len(Keys(t.h, val))))
        patterns == <<"patternProperties", "patternKeys">>
        s3 == ForEach(LAMBDA s, i :
                 IF ~HasKey(s.h, obj, patterns[i]) THEN s
                 ELSE LET key == patterns[i]
                          t == WrongKeyword(s, type_name, key, "patternKeys", "patternProperties", path)
                          val == GetItem(s.h, obj, key)
                      IN IF ~IsDict(t.h, val)
                         THEN err(t, "'{key}' must be an object.", key, KeyPath(path, key))
                         ELSE ForEach(LAMBDA u, j :
                                 LET pattern == Keys(u.h, val)[j]
                                     at == KeyPath(KeyPath(path, key), pattern)
                                     v == IF pattern \in ValidRegexes THEN u
                                          ELSE err(u, "'{key}/{pattern}' is not a valid regular expression: {e}",
                                                   key \o "," \o pattern, at)
                                 IN SchemaAt(v, u.h[val.a].vs[j], at,
                                             "'{key}/{pattern}' must be a schema object.",
                                             key \o "," \o pattern),
                                 t, 1, Len(Keys(t.h, val))),
                 s2, 1, 2)
        names == <<"propertyNames", "keyNames">>
        s4 == ForEach(LAMBDA s, i :
                 IF ~HasKey(s.h, obj, names[i]) THEN s
                 ELSE LET key == names[i]
                          t == WrongKeyword(s, type_name, key, "keyNames", "propertyNames", path)
                          val == GetItem(s.h, obj, key)
                      IN IF ~IsDict(t.h, val)
                         THEN err(t, "'{key}' must be a schema object.", key, KeyPath(path, key))
                         ELSE validate_schema(
                                 IF HasKey(t.h, val, "type")
                                    /\ GetItem(t.h, val, "type") # Str("string")
                                 THEN err(t, "'{key}' schema must have type 'string'.", key,
                                          KeyPath(path, key))
                                 ELSE t,
                                 val, FALSE, KeyPath(path, key)),
                 s3, 1, 2)
    IN IfHas(s4, obj, "has", LAMBDA t, val :
          SchemaAt(t, val, KeyPath(path, "has"), "'has' must be a schema object.", ""))

\* _check_extended_validation_keywords, lines 479-518.
check_extended_validation_keywords(st, obj, path) ==
    IF ValidAddin \notin st.enabled
    THEN LET keys == SetOrder(st, all_validation_keywords)
         IN ForEach(LAMBDA s, i :
                       IF HasKey(s.h, obj, keys[i])
                       THEN err(s, "Validation keyword '{key}' requires JSONStructureValidation extension.",
                                keys[i], KeyPath(path, keys[i]))
                       ELSE s,
                    st, 1, Len(keys))
    ELSE LET tval == Get(st.h, obj, "type")
         IN IF ~IsStr(tval) THEN st
            ELSE IF tval.s \in {"number", "integer", "float", "double", "decimal",
                                "int8", "uint8", "int16", "uint16", "int32", "uint32",
                                "int64", "uint64", "int128", "uint128", "float8"}
            THEN check_numeric_validation(st, obj, path, tval.s)
            ELSE IF tval.s = "string" THEN check_string_validation(st, obj, path)
            ELSE IF tval.s \in {"array", "set"} THEN check_array_validation(st, obj, path, tval.s)
            ELSE IF tval.s \in {"object", "map"} THEN check_object_validation(st, obj, path, tval.s)
            ELSE st

\* _check_union_type_item, lines 686-702.
check_union_type_item(st, union_item, path) ==
    IF IsStr(union_item)
    THEN LET s1 == IF union_item.s \notin PRIMITIVE_TYPES \cup COMPOUND_TYPES
                   THEN err(st, "'{union_item}' not recognized as a valid type name.",
                            union_item.s, path)
                   ELSE st
         IN IF union_item.s \in COMPOUND_TYPES
            THEN err(s1, "Inline compound type '{union_item}' is not permitted in a union. Must use a $ref.",
                     union_item.s, path)
            ELSE s1
    ELSE IF IsDict(st.h, union_item)
    THEN IF ~HasKey(st.h, union_item, "$ref")
         THEN err(st, "Inline compound definitions not allowed in union. Must be a $ref.", "", path)
         ELSE check_json_pointer(st, GetItem(st.h, union_item, "$ref"), st.doc, path \o "/$ref")
    ELSE err(st, "Union item must be a string or an object with $ref.", "", path)

\* The loop over props.items() of lines 716-722 and 784-790.
PropertySchemas(st, props, path, keyMessage, valueMessage) ==
    ForEach(LAMBDA s, i :
               LET prop_name == Keys(s.h, props)[i]
                   at == path \o "/properties/" \o prop_name
                   s1 == IF identifier_match(s, prop_name) THEN s
                         ELSE err(s, keyMessage, prop_name, at)
               IN SchemaAt(s1, s.h[props.a].vs[i], at, valueMessage, prop_name),
            st, 1, Len(Keys(st.h, props)))

\* _check_object_schema, lines 704-722.
check_object_schema(st, obj, path) ==
    IF ~HasKey(st.h, obj, "properties")
    THEN IF HasKey(st.h, obj, "$extends") THEN st
         ELSE err(st, "Object type must have 'properties' if not extending another type.", "",
                  path \o "/properties")
    ELSE LET props == GetItem(st.h, obj, "properties")
         IN IF ~IsDict(st.h, props)
            THEN err(st, "Properties must be an object.", "", path \o "/properties")
            ELSE PropertySchemas(st, props, path,
                                 "Property key '{prop_name}' does not match the identifier pattern.",
                                 "Property '{prop_name}' must be an object (a schema).")

\* _check_array_schema, _check_set_schema and _check_map_schema, lines
\* 724-761: the element schema under key.
check_element_schema(st, obj, path, key, missing) ==
    IF ~HasKey(st.h, obj, key) THEN err(st, missing, "", KeyPath(path, key))
    ELSE SchemaAt(st, GetItem(st.h, obj, key), KeyPath(path, key),
                  "'{key}' must be an object (a schema).", key)

\* Lines 773-774.
tuple_name(st, obj, path) ==
    IF HasKey(st.h, obj, "name") THEN st
    ELSE err(st, "Tuple type must include a 'name' attribute.", "", path \o "/name")
\* Lines 777-790.
tuple_properties(st, obj, path) ==
    IF ~HasKey(st.h, obj, "properties")
    THEN err(st, "Tuple type must have 'properties'.", "", path \o "/properties")
    ELSE IF ~IsDict(st.h, GetItem(st.h, obj, "properties"))
    THEN err(st, "'properties' must be an object.", "", path \o "/properties")
    ELSE PropertySchemas(st, GetItem(st.h, obj, "properties"), path,
                         "Tuple property key '{prop_name}' does not match the identifier pattern.",
                         "Tuple property '{prop_name}' must be an object (a schema).")
\* Lines 793-804.
tuple_order(st, obj, props, path) ==
    IF ~HasKey(st.h, obj, "tuple")
    THEN err(st, "Tuple type must include the 'tuple' keyword defining the order of elements.",
             "", path \o "/tuple")
    ELSE IF ~IsList(st.h, GetItem(st.h, obj, "tuple"))
    THEN err(st, "'tuple' keyword must be an array of strings.", "", path \o "/tuple")
    ELSE ForEach(LAMBDA s, i :
                    LET element == ListItems(s.h, GetItem(s.h, obj, "tuple"))[i]
                    IN IF ~IsStr(element)
                       THEN err(s, "Element at index {idx} in 'tuple' array must be a string.",
                                ToString(i - 1), IdxPath(path \o "/tuple", i))
                       ELSE IF IsDict(s.h, props) /\ ~HasKey(s.h, props, element.s)
                       THEN err(s, "Element '{element}' in 'tuple' does not correspond to any property in 'properties'.",
                                element.s, IdxPath(path \o "/tuple", i))
                       ELSE s,
                 st, 1, Len(ListItems(st.h, GetItem(st.h, obj, "tuple"))))
\* _check_tuple_schema, lines 763-804.
check_tuple_schema(st, obj, path) ==
    tuple_order(tuple_properties(tuple_name(st, obj, path), obj, path),
                obj, Get(st.h, obj, "properties"), path)

\* Lines 810-823.
choice_choices(st, obj, path) ==
    IF ~HasKey(st.h, obj, "choices")
    THEN err(st, "Choice type must have 'choices'.", "", path \o "/choices")
    ELSE IF ~IsDict(st.h, GetItem(st.h, obj, "choices"))
    THEN err(st, "'choices' must be an object (map).", "", path \o "/choices")
    ELSE ForEach(LAMBDA s, i :
                    SchemaAt(s, s.h[GetItem(s.h, obj, "choices").a].vs[i],
                             path \o "/choices/" \o Keys(s.h, GetItem(s.h, obj, "choices"))[i],
                             "Choice value for '{name}' must be an object (schema).",
                             Keys(s.h, GetItem(s.h, obj, "choices"))[i]),
                 st, 1, Len(Keys(st.h, GetItem(st.h, obj, "choices"))))
\* Lines 824-825.
choice_selector(st, obj, path) ==
    IF HasKey(st.h, obj, "selector") /\ ~IsStr(GetItem(st.h, obj, "selector"))
    THEN err(st, "'selector' must be a string.", "", path \o "/selector")
    ELSE st
\* _check_choice_schema, lines 806-825.
check_choice_schema(st, obj, path) ==
    choice_selector(choice_choices(st, obj, path), obj, path)

\* Lines 369-408 of _validate_schema: the value of "type".
schema_type(st, schema_obj, tval, path) ==
    IF IsList(st.h, tval)
    THEN IF ListItems(st.h, tval) = <<>>
         THEN err(st, "Type union cannot be empty.", "", path \o "/type")
         ELSE ForEach(LAMBDA s, i :
                         check_union_type_item(s, ListItems(s.h, tval)[i],
                                               IdxPath(path \o "/type", i)),
                      st, 1, Len(ListItems(st.h, tval)))
    ELSE IF IsDict(st.h, tval)
    THEN IF HasKey(st.h, tval, "$ref")
         THEN check_json_pointer(st, GetItem(st.h, tval, "$ref"), st.doc, path \o "/type/$ref")
         ELSE IF HasKey(st.h, tval, "type") \/ HasKey(st.h, tval, "properties")
         THEN validate_schema(st, tval, FALSE, path \o "/type(inline)")
         ELSE err(st, "Type dict must have '$ref' or be a valid schema object.", "",
                  path \o "/type")
    ELSE IF ~IsStr(tval)
    THEN err(st, "Type must be a string, list, or object with $ref.", "", path \o "/type")
    ELSE IF tval.s \notin PRIMITIVE_TYPES \cup COMPOUND_TYPES
    THEN err(st, "Type '{tval}' is not a recognized primitive or compound type.", tval.s,
             path \o "/type")
    ELSE CASE tval.s = "object" -> check_object_schema(st, schema_obj, path)
           [] tval.s = "array" ->
                check_element_schema(st, schema_obj, path, "items", "Array type must have 'items'.")
           [] tval.s = "set" ->
                check_element_schema(st, schema_obj, path, "items", "Set type must have 'items'.")
           [] tval.s = "map" ->
                check_element_schema(st, schema_obj, path, "values", "Map type must have 'values'.")
           [] tval.s = "tuple" -> check_tuple_schema(st, schema_obj, path)
           [] tval.s = "choice" -> check_choice_schema(st, schema_obj, path)
           [] OTHER -> st

\* "type" in schema_obj and isinstance(schema_obj["type"], str), and the
\* type being one of names.
TypeNamed(h, schema_obj) ==
    HasKey(h, schema_obj, "type") /\ IsStr(GetItem(h, schema_obj, "type"))
TypeIn(h, schema_obj, names) ==
    TypeNamed(h, schema_obj) /\ GetItem(h, schema_obj, "type").s \in names
\* Lines 414-421: key is "required" or "additionalProperties".
object_keyword(st, schema_obj, key, path) ==
    IF /\ HasKey(st.h, schema_obj, key)
       /\ TypeNamed(st.h, schema_obj)
       /\ ~TypeIn(st.h, schema_obj, {"object"})
    THEN err(st, "'{key}' can only appear in an object schema.", key, KeyPath(path, key))
    ELSE st
\* Lines 422-424.
enum_array(st, schema_obj, path) ==
    IF HasKey(st.h, schema_obj, "enum") /\ ~IsList(st.h, GetItem(st.h, schema_obj, "enum"))
    THEN err(st, "Enum must be an array.", "", path \o "/enum")
    ELSE st
\* Lines 425-431: key is "enum" or "const".
scalar_keyword(st, schema_obj, key, path) ==
    IF HasKey(st.h, schema_obj, key) /\ TypeIn(st.h, schema_obj, COMPOUND_TYPES)
    THEN err(st, "'{key}' cannot be used with compound types.", key, KeyPath(path, key))
    ELSE st
\* Lines 414-431 of _validate_schema: keywords that depend on the type.
schema_keywords(st, schema_obj, path) ==
    scalar_keyword(
       scalar_keyword(
          enum_array(
             object_keyword(object_keyword(st, schema_obj, "required", path),
                            schema_obj, "additionalProperties", path),
             schema_obj, path),
          schema_obj, "enum", path),
       schema_obj, "const", path)

\* Lines 332-334.
root_name(st, schema_obj, is_root, path) ==
    IF /\ is_root
       /\ HasKey(st.h, schema_obj, "type")
       /\ ~HasKey(st.h, schema_obj, "name")
       /\ ~IsList(st.h, GetItem(st.h, schema_obj, "type"))
    THEN err(st, "Root schema with 'type' must have a 'name' property.", "", path)
    ELSE st
\* Lines 335-340.
schema_name(st, schema_obj, path) ==
    IfHas(st, schema_obj, "name", LAMBDA t, val :
       IF ~IsStr(val) THEN err(t, "'name' must be a string.", "", path \o "/name")
       ELSE IF ~identifier_match(t, val.s)
       THEN err(t, "'name' must match the identifier pattern.", "", path \o "/name")
       ELSE t)
\* Lines 341-343.
schema_abstract(st, schema_obj, path) ==
    IfHas(st, schema_obj, "abstract", LAMBDA t, val :
       IF ~IsBool(val)
       THEN err(t, "'abstract' keyword must be boolean.", "", path \o "/abstract")
       ELSE t)
\* Lines 344-348.
schema_extends(st, schema_obj, path) ==
    IfHas(st, schema_obj, "$extends", LAMBDA t, val :
       IF ~IsStr(val)
       THEN err(t, "'$extends' must be a JSON pointer string.", "", path \o "/$extends")
       ELSE check_json_pointer(t, val, t.doc, path \o "/$extends"))
\* Lines 369-408.
schema_typed(st, schema_obj, path) ==
    IF HasKey(st.h, schema_obj, "type")
    THEN schema_type(st, schema_obj, GetItem(st.h, schema_obj, "type"), path)
    ELSE st
\* Lines 410-412.
schema_extended(st, schema_obj, path) ==
    IF st.cfg.extended /\ HasKey(st.h, schema_obj, "type")
    THEN check_extended_validation_keywords(st, schema_obj, path)
    ELSE st
\* Lines 350-431.
schema_body(st, schema_obj, path) ==
    IF /\ ~(HasKey(st.h, schema_obj, "type") \/ HasKey(st.h, schema_obj, "$ref"))
       /\ ~(st.cfg.extended /\ has_composition_keywords(st.h, schema_obj))
    THEN err(st, "Missing required 'type' or '$ref' in schema object.", "", path)
    ELSE IF HasKey(st.h, schema_obj, "type") /\ HasKey(st.h, schema_obj, "$ref")
    THEN err(st, "Cannot have both 'type' and '$ref'.", "", path)
    ELSE IF HasKey(st.h, schema_obj, "$ref")
    THEN IF ~IsStr(GetItem(st.h, schema_obj, "$ref"))
         THEN err(st, "'$ref' must be a string.", "", path \o "/$ref")
         ELSE check_json_pointer(st, GetItem(st.h, schema_obj, "$ref"), st.doc, path \o "/$ref")
    ELSE LET typed == schema_typed(st, schema_obj, path)
         IN IF typed.exc # NoExc THEN typed
            ELSE schema_keywords(schema_extended(typed, schema_obj, path), schema_obj, path)
\* _validate_schema, lines 320-431 (name_in_namespace is not read).
validate_schema(st, schema_obj, is_root, path) ==
    IF ~IsDict(st.h, schema_obj)
    THEN err(st, "{path} must be an object to be a schema.", "", path)
    ELSE LET composed == IF st.cfg.extended
                         THEN check_composition_keywords(st, schema_obj, path)
                         ELSE st
         IN IF composed.exc # NoExc THEN composed
            ELSE schema_body(
                    schema_extends(
                       schema_abstract(
                          schema_name(root_name(composed, schema_obj, is_root, path),
                                      schema_obj, path),
                          schema_obj, path),
                       schema_obj, path),
                    schema_obj, path)

\* _validate_namespace, lines 296-312.
RECURSIVE validate_namespace(_, _, _)
validate_namespace(st, obj, path) ==
    IF ~IsDict(st.h, obj) THEN err(st, "{path} must be an object.", "", path)
    ELSE ForEach(LAMBDA s, i :
                    LET v == s.h[obj.a].vs[i]
                        subpath == KeyPath(path, Keys(s.h, obj)[i])
                    IN IF IsDict(s.h, v)
                          /\ (\/ HasKey(s.h, v, "type")
                              \/ HasKey(s.h, v, "$ref")
                              \/ (s.cfg.extended /\ has_composition_keywords(s.h, v)))
                       THEN validate_schema(s, v, FALSE, subpath)
                       ELSE IF ~IsDict(s.h, v)
                       THEN err(s, "{subpath} is not a valid namespace or schema object.", "",
                                subpath)
                       ELSE validate_namespace(s, v, subpath),
                 st, 1, Len(Keys(st.h, obj)))

\* validate, lines 95-142.
validate(st0, doc) ==
    LET st == [st0 EXCEPT !.errors = <<>>, !.doc = doc]
    IN IF ~IsDict(st.h, doc) THEN err(st, "Root of the document must be a JSON object.", "", "#")
       ELSE LET s1 == process_imports(st, doc, "#", 1)
            IN IF s1.exc # NoExc THEN s1 ELSE
            LET s2 == Then(s1, LAMBDA s :
                         IF s.cfg.extended THEN check_enabled_extensions(s, doc) ELSE s)
                s3 == Then(s2, LAMBDA s : check_required_top_level_keywords(s, doc, "#"))
                s4 == Then(s3, LAMBDA s : IfHas(s, doc, "$schema", LAMBDA t, val :
                         check_is_absolute_uri(t, val, "$schema", "#/$schema")))
                s5 == Then(s4, LAMBDA s : IfHas(s, doc, "$id", LAMBDA t, val :
                         check_is_absolute_uri(t, val, "$id", "#/$id")))
                s6 == Then(s5, LAMBDA s : IfHas(s, doc, "$uses", LAMBDA t, val :
                         check_uses(t, val, "#/$uses")))
                s7 == Then(s6, LAMBDA s :
                         IF HasKey(s.h, doc, "type") /\ HasKey(s.h, doc, "$root")
                         THEN err(s, "Document cannot have both 'type' at root and '$root' at the same time.",
                                  "", "#")
                         ELSE s)
                s8 == Then(s7, LAMBDA s :
                         IF HasKey(s.h, doc, "type") THEN validate_schema(s, doc, TRUE, "#")
                         ELSE s)
                s9 == Then(s8, LAMBDA s : IfHas(s, doc, "$root", LAMBDA t, val :
                         check_json_pointer(t, val, t.doc, "#/$root")))
                s10 == Then(s9, LAMBDA s : IfHas(s, doc, "definitions", LAMBDA t, val :
                          IF ~IsDict(t.h, val)
                          THEN err(t, "definitions must be an object.", "", "#/definitions")
                          ELSE validate_namespace(t, val, "#/definitions")))
                s11 == Then(s10, LAMBDA s : IfHas(s, doc, "$offers", LAMBDA t, val :
                          check_offers(t, val, "#/$offers")))
            IN Then(s11, LAMBDA s :
                  IF s.cfg.extended /\ ~HasKey(s.h, doc, "type")
                  THEN check_composition_keywords(s, doc, "#")
                  ELSE s)

(***************************************************************************)
(* The documents of the model: the schema documents a validator is built   *)
(* from and the instance documents handed to it.                           *)
(***************************************************************************)
Leaves ==
    { Ty("string"),
      Ty("int32"),
      Dict(<< <<"type", List(<<Str("string"), Str("null")>>)>> >>),
      Dict(<< <<"type", Str("string")>>, <<"minLength", IntV(2)>> >>),
      Dict(<< <<"$ref", Str("#/B")>> >>),
      Dict(<< <<"$ref", Str("#/C")>> >>),
      Dict(<< <<"anyOf", List(<<Ty("string"), Ty("null")>>)>> >>),
      Dict(<< <<"not", Ty("string")>> >>),
      Ty("object") }
\* The branches of an if/then/else document.
Branches == { Ty("string"), Ty("int32"), Dict(<< <<"not", Ty("string")>> >>) }
\* A root document: the named schemas A, B (a reference to A), C (a
\* reference to itself), D and E (references to each other), then the
\* keywords kvs.
Named ==
    << <<"A", Ty("string")>>,
       <<"B", Dict(<< <<"$ref", Str("#/A")>> >>)>>,
       <<"C", Dict(<< <<"$ref", Str("#/C")>> >>)>>,
       <<"D", Dict(<< <<"$ref", Str("#/E")>> >>)>>,
       <<"E", Dict(<< <<"$ref", Str("#/D")>> >>)>> >>
Root(extended, kvs) ==
    Dict((IF extended THEN << <<"$schema", Str(ExtendedMeta)>> >> ELSE <<>>)
         \o Named \o kvs)
ObjectOf(X, Y) ==
    << <<"type", Str("object")>>,
       <<"properties", Dict(<< <<"a", X>>, <<"b", Y>> >>)>> >>
PlainDocs ==
    { Root(TRUE, [i \in 1..Len(X.ks) |-> <<X.ks[i], X.vs[i]>>]) :
        X \in Leaves \cup { Dict(<< <<"$ref", Str("#/D")>> >>) } }
ObjectDocs == { Root(e, ObjectOf(X, Y)) : e \in BOOLEAN, X \in Leaves, Y \in Leaves }
CompositionDocs ==
    { Root(TRUE, << <<key, List(<<X, Y>>)>> >>) :
        key \in {"allOf", "anyOf", "oneOf"}, X \in Leaves, Y \in Leaves }
NotDocs ==
    { Root(TRUE, << <<"not", X>> >>) : X \in Leaves }
    \cup { Root(TRUE, << <<"not", Dict(<< <<"not", X>> >>)>> >>) : X \in Leaves }
IfDocs ==
    { Root(TRUE, << <<"if", X>> >> \o T \o E) :
        X \in Branches,
        T \in {<<>>} \cup { << <<"then", Y>> >> : Y \in Branches },
        E \in {<<>>} \cup { << <<"else", Z>> >> : Z \in Branches } }
\* Documents with a trial keyword and an `if` at the same node.
MixedDocs ==
    { Root(TRUE, << <<key, List(<<Ty("string"), Ty("int32")>>)>>,
                    <<"if", X>>, <<"then", Ty("int32")>> >>) :
        key \in {"anyOf", "oneOf"}, X \in Branches }
\* Documents whose root extends the named schema Base: the base abstract or
\* not, the root with its own `abstract` or without, and with its own
\* `properties` (empty, disjoint from the base's, redeclaring the base's) or
\* without; and a root that is abstract itself.
BaseSchema(abstract) ==
    Dict((IF abstract THEN << <<"abstract", Bool(TRUE)>> >> ELSE <<>>)
         \o << <<"type", Str("object")>>,
               <<"properties", Dict(<< <<"a", Ty("string")>> >>)>> >>)
OwnAbstract == { <<>>, << <<"abstract", Bool(TRUE)>> >>, << <<"abstract", Bool(FALSE)>> >> }
OwnProperties ==
    { <<>>,
      << <<"properties", EmptyDict>> >>,
      << <<"properties", Dict(<< <<"b", Ty("int32")>> >>)>> >>,
      << <<"properties", Dict(<< <<"a", Ty("int32")>> >>)>> >> }
ExtendsDocs ==
    { Root(FALSE, << <<"Base", BaseSchema(ba)>>, <<"type", Str("object")>>,
                     <<"$extends", Str("#/Base")>> >> \o oa \o op) :
        ba \in BOOLEAN, oa \in OwnAbstract, op \in OwnProperties }
    \cup { Root(FALSE, << <<"type", Str("object")>> >> \o oa) : oa \in OwnAbstract }
\* Documents that offer the add-in Ad in each shape _apply_uses looks at: a
\* schema, a reference object, a pointer string, a list of pointer strings;
\* the add-in's property is new (b) or one the root has already (a).
AddinSchema(p) == Dict(<< <<"properties", Dict(<< <<p, Ty("int32")>> >>)>> >>)
AddinShapes ==
    { AddinSchema("a"), AddinSchema("b"),
      Dict(<< <<"$ref", Str("#/AddB")>> >>),
      Str("#/AddB"),
      List(<<Str("#/AddB")>>), List(<<Str("#/AddA")>>) }
UsesDocs ==
    { Root(e, << <<"AddA", AddinSchema("a")>>, <<"AddB", AddinSchema("b")>>,
                 <<"$offers", Dict(<< <<"Ad", shape>> >>)>>,
                 <<"type", Str("object")>>,
                 <<"properties", Dict(<< <<"a", Ty("string")>> >>)>> >>) :
        e \in BOOLEAN, shape \in AddinShapes }
\* Documents under each meta-schema URI that names the extended or the
\* validation meta-schema (the URI the tests write and the URI
\* validate_instance compares with): a validation keyword at the root and
\* on a property, and a composition keyword on a root without type.
OrgExtendedMeta == "https://json-structure.org/meta/extended/v0/#"
OrgValidationMeta == "https://json-structure.org/meta/validation/v0/#"
Bounded == << <<"type", Str("number")>>, <<"minimum", IntV(10)>> >>
MetaBodies ==
    { Bounded,
      << <<"type", Str("object")>>,
         <<"properties", Dict(<< <<"a", Dict(Bounded)>> >>)>> >>,
      << <<"allOf", List(<<Ty("int32"), Dict(Bounded)>>)>> >> }
MetaDocs ==
    { Dict(<< <<"$schema", Str(uri)>> >> \o Named \o body) :
        uri \in {OrgExtendedMeta, ExtendedMeta, OrgValidationMeta, ValidationMeta},
        body \in MetaBodies }
\* Documents of each numeric type without range.
NumericDocs == { Root(FALSE, << <<"type", Str(t)>> >>) : t \in {"number", "float", "double"} }
\* Objects that must have a string among their property values, alone and
\* with a required property that the instances of the model lack.
HasDocs ==
    { Root(FALSE, << <<"type", Str("object")>>, <<"has", Ty("string")>> >> \o kvs) :
        kvs \in { <<>>, << <<"required", List(<<Str("c")>>)>> >> } }
Docs == PlainDocs \cup ObjectDocs \cup CompositionDocs \cup NotDocs \cup IfDocs \cup MixedDocs
        \cup ExtendsDocs \cup UsesDocs \cup MetaDocs \cup NumericDocs \cup HasDocs
ImportKeys == {"$import", "$importdefs"}
\* Documents with an import keyword at the root or in a namespace.
IvImportTargets == { Str(PeopleUri), Str(ImportdefsUri), Str(DefsUri), Str(GoneUri),
                     Str(UnknownUri), Str("people.json"), IntV(5) }
IvImportDocs ==
    { Root(FALSE, << <<"type", Str("object")>>,
                     <<"properties", Dict(<< <<"a", Dict(<< <<"$ref", Str("#/Address")>> >>)>> >>)>>,
                     <<key, target>> >>) :
        key \in ImportKeys, target \in IvImportTargets }
    \cup { Root(FALSE, << <<"type", Str("string")>>,
                          <<"NS", Dict(<< <<key, Str(PeopleUri)>> >>)>> >>) :
             key \in ImportKeys }
\* The import maps given to the constructor: none, and one that names a
\* file of the model and a file that does not exist.
IvImportMaps ==
    { <<>>, << <<DefsUri, "defs.json">>, <<GoneUri, "gone.json">> >> }
\* The constructor calls made: every document without allow_import, and
\* the documents with import keywords (and one without) with it.
Constructions ==
    { [doc |-> d, allow_import |-> FALSE, import_map |-> <<>>] : d \in Docs \cup IvImportDocs }
    \cup { [doc |-> d, allow_import |-> TRUE, import_map |-> m] :
             d \in IvImportDocs \cup { Root(FALSE, <<>> \o << <<"type", Str("string")>> >>) },
             m \in IvImportMaps }
\* The documents pointers are resolved in: keys that need escaping in a
\* pointer (a/b, m~1, m/) beside the named schemas, and a document that
\* imports the definition Address.
PointerDocs ==
    { Root(e, kvs \o << <<"type", Str("string")>> >>) :
        e \in BOOLEAN,
        kvs \in { <<>>,
                  << <<"a/b", Ty("int32")>>, <<"m~1", Ty("string")>> >>,
                  << <<"m/", Ty("int32")>>, <<"a~1b", Ty("string")>>, <<"m~01", Ty("string")>> >> } }
PointerConstructions ==
    { [doc |-> d, allow_import |-> FALSE, import_map |-> <<>>] : d \in PointerDocs }
    \cup { [doc |-> Root(FALSE, << <<"type", Str("string")>>, <<"$import", Str(PeopleUri)>> >>),
            allow_import |-> TRUE, import_map |-> <<>>] }
Scalars == { Str("ab"), Str("a"), IntV(5), Null, Bool(TRUE), Bool(FALSE), FloatV(25) }
Instances ==
    Scalars
    \cup { Dict(<< <<"a", x>>, <<"b", y>> >>) : x, y \in {Str("ab"), IntV(5)} }
    \cup { Dict(<< <<"$uses", List(<<Str("Nope")>>)>> >>) }
    \cup { Dict(<< <<"$uses", List(<<Str("Ad")>>)>>, <<"a", x>>, <<"b", IntV(5)>> >>) :
            x \in {Str("ab"), IntV(5)} }
    \cup { Dict(<< <<"$uses", List(<<Str(ValidAddin)>>)>>, <<"a", IntV(5)>> >>) }

\* The schema documents handed to the schema validator: a root type, alone
\* or with an import keyword at the root or in a namespace of its
\* definitions, and documents without imports under several $schema values.
RootType ==
    << <<"name", Str("T")>>, <<"type", Str("object")>>,
       <<"properties", Dict(<< <<"a", Ty("string")>> >>)>> >>
ImportTargets ==
    { Str(PeopleUri), Str(AddressUri), Str(SelfUri), Str(DefsUri), Str(NestedUri),
      Str(AliasUri), Str(GoneUri), Str(UnknownUri), Str("people.json"), IntV(5) }
ImportDocs ==
    { Dict(SchemaHead(DocId) \o RootType \o << <<key, target>> >>) :
        key \in ImportKeys, target \in ImportTargets }
    \cup { Dict(SchemaHead(DocId) \o RootType
                \o << <<"definitions",
                        Dict(<< <<"NS", Dict(<< <<key, target>> >>)>> >>)>> >>) :
             key \in ImportKeys, target \in ImportTargets }
\* The shapes of a property's schema node: type, $ref and composition
\* keywords, alone and together, and none of them.
NodeShapes ==
    { Dict(<< <<"type", Str("string")>>, <<"$ref", Str("#")>> >>),
      Dict(<< <<"description", Str("d")>> >>),
      Dict(<< <<"allOf", List(<<Ty("string")>>)>>, <<"type", Str("string")>> >>),
      Dict(<< <<"allOf", List(<<Ty("string")>>)>> >>),
      Dict(<< <<"$ref", Str("#")>> >>),
      Dict(<< <<"allOf", List(<<Ty("string")>>)>>, <<"$ref", Str("#")>> >>) }
SchemaBodies ==
    { RootType,
      << <<"type", Str("string")>> >>,
      << <<"definitions", Dict(<< <<"NS", Dict(<< <<"X", Ty("string")>> >>)>> >>)>>,
         <<"$root", Str("#/definitions/NS/X")>> >>,
      << <<"name", Str("T")>>, <<"type", List(<<Str("string"), Str("null")>>)>> >>,
      << <<"allOf", List(<<Ty("string")>>)>> >>,
      << <<"name", Str("T")>>, <<"type", Str("string")>>, <<"minLength", IntV(2)>> >>,
      << <<"name", Str("T")>>, <<"type", Str("string")>>, <<"maxLength", IntV(5)>> >>,
      << <<"$uses", List(<<Str(CondAddin), Str("Nope")>>)>>,
         <<"if", Ty("string")>>, <<"then", Ty("int32")>> >> }
    \cup { << <<"name", Str("T")>>, <<"type", Str("string")>> >> \o kvs :
            kvs \in { << <<"description", Str("d")>> >>,
                      << <<"description", Str("d")>>, <<"default", Str("ab")>> >>,
                      << <<"examples", List(<<Str("ab")>>)>> >> } }
    \cup { << <<"name", Str("T")>>, <<"type", Str("object")>>,
              <<"properties", Dict(<< <<"a", X>> >>)>> >> : X \in NodeShapes }
    \cup { << <<"name", Str("T")>>, <<"type", Str("object")>>,
              <<"$extends", Str("#/definitions/Base")>>,
              <<"properties", Dict(<< <<p, Ty("int32")>> >>)>>,
              <<"definitions", Dict(<< <<"Base", Dict(RootType)>> >>)>> >> :
            p \in {"a", "b"} }
SchemaUris == { Str(CoreOrgMeta), Str(ValidationMeta), Str(ExtendedMeta), IntV(5) }
PlainSchemaDocs ==
    { Dict(<< <<"$schema", uri>>, <<"$id", Str(DocId)>> >> \o body) :
        uri \in SchemaUris, body \in SchemaBodies }
SchemaDocs == ImportDocs \cup PlainSchemaDocs \cup { Str("T") }
\* The documents validated after another document by the same validator: a
\* string with minLength under the core meta-schema, which enables no
\* extension.
FollowUpDocs ==
    { Dict(<< <<"$schema", Str(CoreOrgMeta)>>, <<"$id", Str(DocId)>>, <<"name", Str("T")>>,
              <<"type", Str("string")>>, <<"minLength", IntV(2)>> >>) }
\* The import maps given to the constructor: none, and one that names the
\* files of the model and a file that does not exist.
ImportMaps ==
    { <<>>,
      << <<SelfUri, "self.json">>, <<DefsUri, "defs.json">>,
         <<NestedUri, "nested.json">>, <<AliasUri, "alias.json">>,
         <<GoneUri, "gone.json">> >> }

(***************************************************************************)
(* The state: one JSONStructureInstanceValidator object, one                *)
(* JSONStructureSchemaCoreValidator object and their caller.               *)
(***************************************************************************)
VARIABLES
    heap,         \* the objects of the Python heap
    root_schema,  \* self.root_schema (Null before the constructor has run)
    errors,       \* self.errors
    instance,     \* the instance object of the last validate_instance call
    outcome,      \* of the last call: "returned" or the exception raised
    calls,        \* the number of validate_instance calls made
    doc,          \* the schema document the validator was built from
    text,         \* the instance document that was loaded
    log,          \* the trial branches of the last call (history)
    kept,         \* the diagnostics the last call appended outside every
                  \* trial branch (history)
    iv_cfg,       \* self.allow_import and self.import_map (Null before
                  \* the constructor has run)
    fetched,      \* the URIs _fetch_external_schema was called with, each
                  \* with the number of validate_instance calls made by
                  \* then (history)
    built,        \* the value of root_schema when the constructor
                  \* returned (history)
    pointer,      \* the argument of the last _resolve_ref call made from
                  \* outside (Null before the first)
    target,       \* what that call returned
    sv_cfg,       \* the schema validator's constructor arguments (Null
                  \* before the constructor has run)
    sv_doc,       \* its self.doc
    sv_errors,    \* its self.errors
    enabled_extensions,  \* its self.enabled_extensions
    sv_outcome,   \* of the last validate call: "returned" or the exception
    sv_calls,     \* the number of validate calls made
    sv_text       \* the schema document that was loaded for the last one

ivars == <<root_schema, errors, instance, outcome, calls, doc, text, log, kept,
           iv_cfg, fetched, built, pointer, target>>
svars == <<sv_cfg, sv_doc, sv_errors, enabled_extensions, sv_outcome, sv_calls, sv_text>>
vars == <<heap, ivars, svars>>

Init ==
    /\ heap = <<>>
    /\ root_schema = Null
    /\ errors = <<>>
    /\ instance = Null
    /\ outcome = ""
    /\ calls = 0
    /\ doc = Null
    /\ text = Null
    /\ log = <<>>
    /\ kept = <<>>
    /\ iv_cfg = Null
    /\ fetched = <<>>
    /\ built = Null
    /\ pointer = Null
    /\ target = Null
    /\ sv_cfg = Null
    /\ sv_doc = Null
    /\ sv_errors = <<>>
    /\ enabled_extensions = {}
    /\ sv_outcome = ""
    /\ sv_calls = 0
    /\ sv_text = Null

\* The interpreter state at the start of a call.
Enter(h, root, errs) ==
    [h |-> h, root |-> root, errors |-> errs, exc |-> NoExc,
     log |-> <<>>, trial |-> 0, kept |-> <<>>, fetched |-> <<>>]
\* What a call leaves behind.
Leave(st) ==
    /\ heap' = st.h
    /\ errors' = st.errors
    /\ outcome' = IF st.exc = NoExc THEN "returned" ELSE st.exc
    /\ log' = st.log
    /\ kept' = st.kept
    /\ fetched' = fetched \o [i \in 1..Len(st.fetched) |-> [uri |-> st.fetched[i], calls |-> calls + 1]]
    /\ calls' = calls + 1

\* JSONStructureInstanceValidator(json.load(d), allow_import, import_map),
\* lines 53-66.  A constructor that raises leaves no validator behind.
Construct(d, allow_import, import_map) ==
    /\ root_schema = Null
    /\ LET loaded == Load(heap, d)
           cfg == [allow_import |-> allow_import, import_map |-> import_map]
           st == init_imports(Enter(loaded.h, loaded.v, <<>>), cfg)
       IN IF st.exc = NoExc
          THEN /\ heap' = st.h
               /\ root_schema' = loaded.v
               /\ errors' = st.errors
               /\ iv_cfg' = cfg
               /\ fetched' = [i \in 1..Len(st.fetched) |-> [uri |-> st.fetched[i], calls |-> 0]]
               /\ built' = Deref(st.h, loaded.v)
               /\ doc' = d
               /\ UNCHANGED outcome
          ELSE /\ outcome' = st.exc
               /\ UNCHANGED <<heap, root_schema, errors, iv_cfg, fetched, built, doc>>
    /\ UNCHANGED <<instance, calls, text, log, kept, pointer, target>>
    /\ UNCHANGED svars

\* instance = json.load(t); validator.validate_instance(instance)
ValidateInstance(t) ==
    /\ root_schema # Null
    /\ calls < MaxCalls
    /\ calls = 0 \/ t = text
    /\ LET loaded == Load(heap, t)
       IN /\ Leave(validate_instance(Enter(loaded.h, root_schema, errors),
                                     loaded.v, root_schema, "#", 1))
          /\ instance' = loaded.v
    /\ text' = t
    /\ UNCHANGED <<root_schema, doc, iv_cfg, built, pointer, target>>
    /\ UNCHANGED svars

\* validator.validate_instance(instance) once more, on the same object.
Revalidate ==
    /\ 0 < calls
    /\ calls < MaxCalls
    /\ Leave(validate_instance(Enter(heap, root_schema, errors),
                               instance, root_schema, "#", 1))
    /\ UNCHANGED <<root_schema, instance, doc, text, iv_cfg, built, pointer, target>>
    /\ UNCHANGED svars

Next ==
    \/ \E c \in Constructions : Construct(c.doc, c.allow_import, c.import_map)
    \/ \E t \in Instances : ValidateInstance(t)
    \/ Revalidate

Spec == Init /\ [][Next]_vars

\* validator._resolve_ref(ref) on a validator just built.
ResolveRef(ref) ==
    /\ root_schema # Null
    /\ calls = 0
    /\ pointer' = ref
    /\ target' = resolve_ref(heap, root_schema, ref)
    /\ UNCHANGED <<heap, root_schema, errors, instance, outcome, calls, doc, text, log, kept,
                   iv_cfg, fetched, built>>
    /\ UNCHANGED svars

NextPointer ==
    \/ \E c \in PointerConstructions : Construct(c.doc, c.allow_import, c.import_map)
    \/ \E cs \in KnownTexts : ResolveRef(Str(Concat(cs)))

SpecPointer == Init /\ [][NextPointer]_vars

\* JSONStructureSchemaCoreValidator(allow_dollar, allow_import, import_map,
\* extended), lines 75-93, in a process whose sets iterate in the order
\* reversed stands for.
NewSchemaValidator(allow_dollar, allow_import, import_map, extended, reversed) ==
    /\ sv_cfg = Null
    /\ sv_cfg' = [allow_dollar |-> allow_dollar, allow_import |-> allow_import,
                  import_map |-> import_map, extended |-> extended,
                  reversed |-> reversed]
    /\ sv_errors' = <<>>
    /\ sv_doc' = Null
    /\ enabled_extensions' = {}
    /\ UNCHANGED <<heap, sv_outcome, sv_calls, sv_text>>
    /\ UNCHANGED ivars

\* What a call of validate leaves behind.
LeaveSchema(st) ==
    /\ heap' = st.h
    /\ sv_doc' = st.doc
    /\ sv_errors' = st.errors
    /\ enabled_extensions' = st.enabled
    /\ sv_outcome' = IF st.exc = NoExc THEN "returned" ELSE st.exc
    /\ sv_calls' = sv_calls + 1
\* The validator validates the document loaded.
ValidateLoaded(loaded) ==
    LeaveSchema(validate([h |-> loaded.h, doc |-> sv_doc, errors |-> sv_errors,
                          exc |-> NoExc, enabled |-> enabled_extensions, cfg |-> sv_cfg],
                         loaded.v))
\* validator.validate(json.load(d))
ValidateSchema(d) ==
    /\ sv_cfg # Null
    /\ sv_calls < MaxCalls
    /\ sv_calls = 0 \/ d = sv_text \/ d \in FollowUpDocs
    /\ ValidateLoaded(Load(heap, d))
    /\ sv_text' = d
    /\ UNCHANGED sv_cfg
    /\ UNCHANGED ivars

NextSchema ==
    \/ \E allow_dollar, allow_import, extended, reversed \in BOOLEAN, import_map \in ImportMaps :
          NewSchemaValidator(allow_dollar, allow_import, import_map, extended, reversed)
    \/ \E d \in SchemaDocs : ValidateSchema(d)

SpecSchema == Init /\ [][NextSchema]_vars

(***************************************************************************)
(* Properties.                                                             *)
(***************************************************************************)
\* The schema document d with the root keywords drop taken out and the
\* keywords of the subschema A put in their place: A as a document of its
\* own, under the same $schema and the same named schemas.
Isolated(d, drop, A) ==
    LET idx == SelectSeq([i \in 1..Len(d.ks) |-> i], LAMBDA i : d.ks[i] \notin drop)
    IN [k |-> "dict",
        ks |-> [j \in 1..Len(idx) |-> d.ks[idx[j]]] \o A.ks,
        vs |-> [j \in 1..Len(idx) |-> d.vs[idx[j]]] \o A.vs]
\* The state in which validator.validate_instance(instance) ends, for a
\* validator freshly built from document d and the instance loaded from t.
Alone(d, t) ==
    LET r == Load(<<>>, d)
        i == Load(r.h, t)
    IN validate_instance(Enter(i.h, r.v, <<>>), i.v, r.v, "#", 1)
\* The value of the root keyword key of document d.
Keyword(d, key) == d.vs[IndexOf(d.ks, key, 1)]
\* The call returned an empty list.
Passes(st) == st.exc = NoExc /\ st.errors = <<>>
\* The schema document has key at its root.
RootHas(key) == doc # Null /\ InSeq(doc.ks, key)
\* The entries of the history that belong to the root schema node.
RootTrials(kind) == { j \in 1..Len(log) : log[j].kind = kind /\ log[j].path = "#" }

\* C1: every diagnostic that a call appended outside an `if` probe and
\* outside every trial branch is in the list the call returns.
C1_DiagnosticsAccumulate ==
    outcome = "returned" => \A j \in 1..Len(kept) : InSeq(errors, kept[j])

\* C2: a call of validate_instance ends by returning its list, whatever the
\* kind of the instance and the keywords of the schema node (the exhaustion
\* of the stack by a reference cycle is left to C10).
C2_NeverThrows ==
    calls > 0 => outcome \in {"returned", "RecursionError"}

\* C3: an instance that passes {allOf: [A, B]} passes A alone and passes B
\* alone.
C3_AllOfImpliesEach ==
    (calls = 1 /\ RootHas("allOf") /\ outcome = "returned" /\ errors = <<>>)
    => \A n \in 1..2 :
          Passes(Alone(Isolated(doc, {"allOf"}, Keyword(doc, "allOf").xs[n]), text))

\* C4: oneOf adds its 'must match exactly one' diagnostic if and only if the
\* number of subschemas that the instance passes alone differs from 1.
C4_OneOfExactlyOne ==
    (calls = 1 /\ RootHas("oneOf") /\ outcome = "returned")
    => LET matched == { n \in 1..2 :
                          Passes(Alone(Isolated(doc, {"oneOf"}, Keyword(doc, "oneOf").xs[n]),
                                       text)) }
           diagnosed == \E j \in 1..Len(errors) :
                           /\ errors[j].path = "#"
                           /\ errors[j].msg = "Instance at {path} must match exactly one subschema in oneOf; matched {valid_count}. Details: {errors_one}"
       IN diagnosed <=> Cardinality(matched) # 1

\* C5: an instance passes {not: {not: A}} if and only if it passes A, and
\* {not: A} yields the "should not validate against 'not' schema" diagnostic
\* exactly when the instance passes A.
C5_NotInvolution ==
    (calls = 1 /\ RootHas("not") /\ outcome = "returned")
    => LET inner == Keyword(doc, "not")
           passesNot == Passes(Alone(Isolated(doc, {"not"}, inner), text))
           diagnosed == \E j \in 1..Len(errors) :
                           /\ errors[j].path = "#"
                           /\ errors[j].msg = "Instance at {path} should not validate against 'not' schema"
       IN /\ diagnosed <=> passesNot
          /\ InSeq(inner.ks, "not")
             => (errors = <<>>
                 <=> Passes(Alone(Isolated(doc, {"not"}, Keyword(inner, "not")), text)))
C5_Witness ==
    /\ calls = 1 /\ RootHas("not") /\ outcome = "returned" /\ errors = <<>>
    /\ InSeq(Keyword(doc, "not").ks, "not")

C7_SaveRestore ==
    \A j \in 1..Len(log) :
        /\ (log[j].kind \in {"anyOf", "oneOf"} /\ ~log[j].passed)
           => log[j].after = log[j].before
        /\ log[j].kind = "if" => log[j].after = log[j].before
C7_Witness ==
    /\ \E j \in 1..Len(log) :
          /\ log[j].kind \in {"anyOf", "oneOf"} /\ ~log[j].passed
          /\ log[j].before # <<>> /\ log[j].inner # <<>>
    /\ \E j \in 1..Len(log) :
          log[j].kind = "if" /\ log[j].before # <<>> /\ log[j].inner # <<>>

\* C9: a call of validate ends by returning its list of diagnostics, whatever
\* the import_map and the files it names (a file that imports its own URI
\* included): the stack is never exhausted.
C9_ValidateReturns ==
    sv_calls > 0 => sv_outcome # "RecursionError"

\* C10: on a schema whose $ref targets form a cycle (C refers to itself, D
\* and E to each other) validate_instance returns a list that holds a
\* diagnostic.
C10_RefCycleDiagnosed ==
    (calls > 0 /\ RootHas("$ref")
     /\ Keyword(doc, "$ref") \in {Str("#/C"), Str("#/D")})
    => (outcome = "returned" /\ errors # <<>>)

\* The list the call returned holds the diagnostic msg for the root node.
RootDiagnosed(msg) == \E j \in 1..Len(errors) : errors[j].msg = msg /\ errors[j].path = "#"
\* The root schema node has a type name and is no reference.
RootTyped == RootHas("type") /\ Keyword(doc, "type").k = "str" /\ ~RootHas("$ref")

\* C11: validating against a schema node with a type name, the call reports
\* 'Abstract schema ... cannot be used for instance validation' exactly when
\* the node itself declares abstract: true; a node without `abstract` whose
\* $extends base is abstract is validated without that diagnostic.
C11_AbstractOnlyWhenDeclared ==
    (calls = 1 /\ outcome = "returned" /\ RootTyped)
    => (RootDiagnosed("Abstract schema at {path} cannot be used for instance validation")
        <=> (RootHas("abstract") /\ Keyword(doc, "abstract") = Bool(TRUE)))

\* The schema document read has key at its root.
SchemaRootHas(key) == sv_text # Null /\ sv_text.k = "dict" /\ InSeq(sv_text.ks, key)
\* The property names that the root of the document read declares itself
\* and that the base its $extends points to declares.
OwnNames == Keyword(sv_text, "properties").ks
BaseNames == Keyword(Keyword(Keyword(sv_text, "definitions"), "Base"), "properties").ks

\* C12: when the root of the document extends #/definitions/Base and
\* declares in its own `properties` a property that the base declares,
\* validate returns at least one diagnostic.
C12_InheritanceConflictReported ==
    (sv_calls > 0 /\ SchemaRootHas("$extends") /\ SchemaRootHas("properties")
     /\ \E p \in { OwnNames[i] : i \in 1..Len(OwnNames) } :
           p \in { BaseNames[i] : i \in 1..Len(BaseNames) })
    => (sv_outcome = "returned" /\ sv_errors # <<>>)

\* The schema of property p of the named schema Base of the document.
BaseProperty(p) == Keyword(Keyword(Keyword(doc, "Base"), "properties"), p)
\* The instance read is an object with the member key.
InstanceHas(key) == text # Null /\ text.k = "dict" /\ InSeq(text.ks, key)
\* The root extends Base, is validated as an object (no abstract
\* diagnostic) and does not redeclare the base's property a.
ExtendsBase ==
    /\ RootTyped /\ RootHas("$extends") /\ RootHas("Base")
    /\ ~RootDiagnosed("Abstract schema at {path} cannot be used for instance validation")
    /\ ~(RootHas("properties") /\ InSeq(Keyword(doc, "properties").ks, "a"))

\* C13: under a root that extends Base, the instance's value for the base's
\* property a is validated against the base's schema of a, whether the root
\* declares a `properties` map of its own or not: the call reports a
\* diagnostic at #/a exactly when the value fails that schema on its own.
C13_BasePropertiesEffective ==
    (calls = 1 /\ outcome = "returned" /\ ExtendsBase /\ InstanceHas("a"))
    => ((\E j \in 1..Len(errors) : errors[j].path = "#/a")
        <=> ~Passes(Alone(Isolated(doc, {"type", "$extends", "properties", "abstract"},
                                   BaseProperty("a")),
                          Keyword(text, "a"))))

\* The root offers the add-in Ad as a schema (inline, by a reference object
\* or by a list of pointers) whose property a the root declares already,
\* and the instance names Ad in $uses.
UsesConflicting ==
    /\ RootTyped /\ RootHas("$offers") /\ RootHas("properties")
    /\ Keyword(Keyword(doc, "$offers"), "Ad") \in {AddinSchema("a"), List(<<Str("#/AddA")>>)}
    /\ InstanceHas("$uses") /\ Keyword(text, "$uses") = List(<<Str("Ad")>>)

\* C14: when the add-in named in the instance's $uses offers the property a
\* that the root declares already, the call reports 'conflicts with existing
\* property' and validates the instance's a against the root's own schema of
\* a: a diagnostic at #/a is reported exactly when the value fails it.
C14_ExistingPropertyWins ==
    (calls = 1 /\ outcome = "returned" /\ UsesConflicting /\ InstanceHas("a"))
    => /\ \E j \in 1..Len(errors) :
             errors[j].msg = "Add-in property '{prop}' from add-in '{use}' conflicts with existing property"
       /\ (\E j \in 1..Len(errors) : errors[j].path = "#/a")
          <=> ~Passes(Alone(Isolated(doc, {"type", "$offers", "properties"},
                                     Keyword(Keyword(doc, "properties"), "a")),
                            Keyword(text, "a")))

\* The root offers the add-in Ad in a shape _check_offers of the schema
\* validator accepts (a pointer string or a list of pointer strings, each
\* resolving to a schema with properties), and the instance names Ad in
\* $uses.
UsesPointerOffer ==
    /\ RootTyped /\ RootHas("$offers")
    /\ Keyword(Keyword(doc, "$offers"), "Ad")
          \in {Str("#/AddB"), List(<<Str("#/AddB")>>), List(<<Str("#/AddA")>>)}
    /\ InstanceHas("$uses") /\ Keyword(text, "$uses") = List(<<Str("Ad")>>)

\* C15: when $offers maps the add-in named in the instance's $uses to a
\* pointer string or to a list of pointer strings, the call reports neither
\* 'Invalid add-in definition' nor 'not offered'.
C15_OfferedShapesApplied ==
    (calls = 1 /\ outcome = "returned" /\ UsesPointerOffer)
    => \A j \in 1..Len(errors) :
          errors[j].msg \notin {"Invalid add-in definition for '{use}'",
                                "Add-in '{use}' not offered in $offers"}

\* C16: once the constructor has finished, root_schema and every schema
\* node inside it hold the values of the document they were built from,
\* whatever validate_instance calls have been made.
C16_RootSchemaImmutable ==
    root_schema # Null => Deref(heap, root_schema) = built

\* C17: _fetch_external_schema is called only by the constructor's import
\* expansion, before the first validate_instance call, and only by a
\* validator built with allow_import: no validate_instance call adds to the
\* history of resolver calls.
C17_ResolverOnlyInConstructor ==
    \A i \in 1..Len(fetched) :
       fetched[i].calls = 0 /\ iv_cfg # Null /\ iv_cfg.allow_import
\* The constructor has called the resolver and two validate_instance calls
\* have been made since.
C17_Witness ==
    fetched # <<>> /\ calls = MaxCalls /\ outcome = "returned"

\* A pointer segment with ~1 read as / and ~0 as ~, in one pass from the
\* left.
RECURSIVE Unescaped(_)
Unescaped(cs) ==
    IF Len(cs) < 2 THEN cs
    ELSE IF cs[1] = "~" /\ cs[2] = "1" THEN <<"/">> \o Unescaped(SubSeq(cs, 3, Len(cs)))
    ELSE IF cs[1] = "~" /\ cs[2] = "0" THEN <<"~">> \o Unescaped(SubSeq(cs, 3, Len(cs)))
    ELSE <<cs[1]>> \o Unescaped(Tail(cs))
\* The value under the keys segs of the document tree t; Null when a key
\* is missing or the value reached is no object.
RECURSIVE Walked(_, _)
Walked(t, segs) ==
    IF segs = <<>> THEN t
    ELSE IF t.k = "dict" /\ InSeq(t.ks, Concat(Unescaped(Head(segs))))
    THEN Walked(Keyword(t, Concat(Unescaped(Head(segs)))), Tail(segs))
    ELSE Null
\* The text is # or #/s1/.../sn with no empty segment.
PointerForm(cs) ==
    /\ cs # <<>> /\ Head(cs) = "#"
    /\ Len(cs) > 1 => (cs[2] = "/" /\ cs[Len(cs)] # "/"
                       /\ \A i \in 2..(Len(cs) - 1) : ~(cs[i] = "/" /\ cs[i + 1] = "/"))
\* What the pointer text cs denotes in the document tree t.
Denoted(t, cs) ==
    IF cs = <<>> \/ Head(cs) # "#" THEN Null
    ELSE IF Len(cs) = 1 THEN t
    ELSE Walked(t, Split(SubSeq(cs, 3, Len(cs)), "/"))

\* C18: _resolve_ref returns the root for #, for #/s1/.../sn the value under
\* the keys s1..sn with ~1 read as / and ~0 as ~ (~01 is the key ~1), and
\* None when a key is missing, when the value reached is no object, and
\* for a string that does not begin with #.
C18_PointerResolution ==
    (pointer # Null /\ (PointerForm(Chars(pointer.s)) \/ Head(Chars(pointer.s)) # "#"))
    => Deref(heap, target) = Denoted(built, Chars(pointer.s))
\* The pointer #/m~01 has been resolved to the value of the key m~1.
C18_Witness ==
    /\ pointer = Str("#/m~01")
    /\ InSeq(built.ks, "m~1")
    /\ Deref(heap, target) = Ty("string")

\* The document read names the meta-schema uri in $schema.
SchemaMetaIs(uri) == SchemaRootHas("$schema") /\ Keyword(sv_text, "$schema") = Str(uri)
\* The diagnostics that ask for an extension.
RequiresExtension ==
    { "Conditional composition keyword '{key}' requires JSONStructureConditionalComposition extension.",
      "Validation keyword '{key}' requires JSONStructureValidation extension." }

\* C19: in extended mode, after validate has returned on a document whose
\* $schema names the validation meta-schema both
\* JSONStructureConditionalComposition and JSONStructureValidation are
\* enabled, on one whose $schema names the extended meta-schema all addins
\* are, and in both cases no keyword is diagnosed as requiring an extension.
C19_MetaSchemaEnablesAddins ==
    (sv_calls > 0 /\ sv_outcome = "returned" /\ sv_cfg.extended)
    => /\ SchemaMetaIs(ValidationMeta) => {CondAddin, ValidAddin} \subseteq enabled_extensions
       /\ SchemaMetaIs(ExtendedMeta)
            => { all_addins[i] : i \in 1..Len(all_addins) } \subseteq enabled_extensions
       /\ (SchemaMetaIs(ValidationMeta) \/ SchemaMetaIs(ExtendedMeta))
            => \A j \in 1..Len(sv_errors) : sv_errors[j].msg \notin RequiresExtension

\* The document tree t holds, at no depth, a composition keyword, a
\* validation keyword or $uses; default is a structural keyword.
RECURSIVE FreeOfExtensions(_)
FreeOfExtensions(t) ==
    IF t.k = "dict"
    THEN /\ \A i \in 1..Len(t.ks) :
             /\ ~InSeq(COMPOSITION_KEYWORDS, t.ks[i])
             /\ ~(InSeq(all_validation_keywords, t.ks[i]) /\ t.ks[i] # "default")
             /\ t.ks[i] # "$uses"
             /\ FreeOfExtensions(t.vs[i])
    ELSE IF t.k = "list" THEN \A i \in 1..Len(t.xs) : FreeOfExtensions(t.xs[i])
    ELSE TRUE
\* The state in which validate(json.load(d)) ends for a validator freshly
\* built with the arguments cfg.
SchemaAlone(d, cfg) ==
    LET loaded == Load(<<>>, d)
    IN validate([h |-> loaded.h, doc |-> Null, errors |-> <<>>, exc |-> NoExc,
                 enabled |-> {}, cfg |-> cfg],
                loaded.v)

\* C20: on a document without composition keywords, validation keywords and
\* $uses, the list validate returns is the list that a validator built with
\* the other value of `extended` (and the same other arguments) returns.
C20_ExtendedFlagInvariance ==
    (sv_calls = 1 /\ sv_outcome = "returned" /\ FreeOfExtensions(sv_text))
    => LET other == SchemaAlone(sv_text, [sv_cfg EXCEPT !.extended = ~@])
       IN other.exc = NoExc /\ other.errors = sv_errors

\* The root schema names the meta-schema uri in $schema.
RootMetaNames(uri) == RootHas("$schema") /\ Keyword(doc, "$schema") = Str(uri)
\* The root is a number with a minimum and the instance is an integer
\* below it.
BelowRootMinimum ==
    /\ RootHas("type") /\ Keyword(doc, "type") = Str("number") /\ RootHas("minimum")
    /\ text # Null /\ text.k = "int" /\ text.n < Keyword(doc, "minimum").n

\* C21: under a root $schema that names the extended meta-schema, and with
\* no $uses in the instance, the root's `minimum` is enforced (an integer
\* below it is reported as 'less than minimum') and a root with composition
\* keywords and no type is not reported as having no type.
C21_ExtendedMetaEnablesAddins ==
    (calls = 1 /\ outcome = "returned"
     /\ (RootMetaNames(OrgExtendedMeta) \/ RootMetaNames(ExtendedMeta)))
    => /\ BelowRootMinimum
            => RootDiagnosed("Value at {path} is less than minimum {minimum}")
       /\ (RootHas("allOf") /\ ~RootHas("type"))
            => ~RootDiagnosed("Schema at {path} has no 'type'")

\* The root is an object whose property a is a number with a minimum, and
\* the instance is an object whose a is an integer below it.
BelowPropertyMinimum ==
    /\ RootHas("properties") /\ InSeq(Keyword(doc, "properties").ks, "a")
    /\ Keyword(Keyword(doc, "properties"), "a") = Dict(Bounded)
    /\ InstanceHas("a") /\ Keyword(text, "a").k = "int"
    /\ Keyword(text, "a").n < Keyword(Dict(Bounded), "minimum").n

\* C22: under the validation meta-schema the validation and composition
\* keywords are enforced for every instance, with $uses in it or without:
\* an integer below the `minimum` of the root or of the property a is
\* reported as 'less than minimum', and a root with composition keywords
\* and no type is not reported as having no type.
C22_ValidationMetaEnablesAddins ==
    (calls = 1 /\ outcome = "returned" /\ RootMetaNames(ValidationMeta))
    => /\ BelowRootMinimum
            => RootDiagnosed("Value at {path} is less than minimum {minimum}")
       /\ BelowPropertyMinimum
            => \E j \in 1..Len(errors) :
                  /\ errors[j].msg = "Value at {path} is less than minimum {minimum}"
                  /\ errors[j].path = "#/a"
       /\ (RootHas("allOf") /\ ~RootHas("type"))
            => ~RootDiagnosed("Schema at {path} has no 'type'")

\* The schema node of property a of the document read, and the diagnostics
\* about its shape in the list returned.
NodeA == Keyword(Keyword(sv_text, "properties"), "a")
ShapeDiagnosed ==
    \E j \in 1..Len(sv_errors) :
       /\ sv_errors[j].path = "#/properties/a"
       /\ sv_errors[j].msg \in {"Missing required 'type' or '$ref' in schema object.",
                                "Cannot have both 'type' and '$ref'."}
\* The number of the three alternatives that node t takes: type, $ref, and
\* composition keywords when the composition extension is enabled.
Alternatives(t) ==
    (IF InSeq(t.ks, "type") THEN 1 ELSE 0)
    + (IF InSeq(t.ks, "$ref") THEN 1 ELSE 0)
    + (IF CondAddin \in enabled_extensions
          /\ \E i \in 1..Len(COMPOSITION_KEYWORDS) : InSeq(t.ks, COMPOSITION_KEYWORDS[i])
       THEN 1 ELSE 0)

\* C23: the schema node of a property is free of a type/$ref diagnostic only
\* if it has exactly one of type, $ref and (the composition extension
\* enabled) composition keywords: with two of them, or none, it is
\* diagnosed.
C23_NodeShapeDiagnosed ==
    (sv_calls = 1 /\ sv_outcome = "returned" /\ SchemaRootHas("properties")
     /\ Keyword(sv_text, "properties").k = "dict"
     /\ InSeq(Keyword(sv_text, "properties").ks, "a") /\ NodeA \in NodeShapes)
    => (Alternatives(NodeA) # 1 => ShapeDiagnosed)

\* The validation keywords of a schema node.
GatedValidationKeywords ==
    <<"minimum", "maximum", "exclusiveMinimum", "exclusiveMaximum", "multipleOf",
      "minLength", "maxLength", "pattern", "format",
      "minItems", "maxItems", "uniqueItems", "contains", "minContains", "maxContains",
      "minProperties", "maxProperties", "minEntries", "maxEntries",
      "dependentRequired", "patternProperties", "patternKeys",
      "propertyNames", "keyNames", "has">>
\* The keyword key of the root node is diagnosed as requiring its extension,
\* and no other diagnostic is about its value.
Gated(key) ==
    /\ \E j \in 1..Len(sv_errors) :
          sv_errors[j].path = KeyPath("#", key) /\ sv_errors[j].msg \in RequiresExtension
    /\ \A j \in 1..Len(sv_errors) :
          sv_errors[j].path = KeyPath("#", key) => sv_errors[j].msg \in RequiresExtension

\* C24: after validate has returned, each composition keyword at the root
\* node is diagnosed as requiring JSONStructureConditionalComposition when
\* that extension is not enabled, each validation keyword at the root node
\* as requiring JSONStructureValidation when that one is not, and nothing
\* else is reported about the keyword's value.
C24_ExtensionGating ==
    (sv_calls = 1 /\ sv_outcome = "returned" /\ sv_text.k = "dict")
    => /\ CondAddin \notin enabled_extensions
            => \A i \in 1..Len(COMPOSITION_KEYWORDS) :
                  SchemaRootHas(COMPOSITION_KEYWORDS[i]) => Gated(COMPOSITION_KEYWORDS[i])
       /\ ValidAddin \notin enabled_extensions
            => \A i \in 1..Len(GatedValidationKeywords) :
                  SchemaRootHas(GatedValidationKeywords[i])
                     => Gated(GatedValidationKeywords[i])

\* The messages that report an instance of the wrong type for a numeric
\* schema type.
ExpectedNumeric ==
    { "Expected number at {path}, got {type}", "Expected {schema_type} at {path}, got {type}" }
\* The root schema is one of the documents that declare only number, float
\* or double.
NumericRoot == doc \in NumericDocs
TypeDiagnosed == \E j \in 1..Len(errors) : errors[j].msg \in ExpectedNumeric

\* C25: against a root schema of type number, float or double,
\* validate_instance reports 'Expected <type>' for true and for false, and
\* is free of that diagnostic exactly for integer and fractional instances.
C25_NumericRejectsBooleans ==
    (calls = 1 /\ outcome = "returned" /\ NumericRoot /\ text # Null)
    => /\ text.k = "bool" => TypeDiagnosed
       /\ ~TypeDiagnosed <=> text.k \in {"int", "float"}

HasMissing == "Object at {path} does not have any property satisfying 'has' schema"
\* Some property value of the instance read validates against the `has`
\* schema of the root without a diagnostic.
SomeValueSatisfiesHas ==
    \E i \in 1..Len(text.vs) : Passes(Alone(Keyword(doc, "has"), text.vs[i]))

\* C26: for an object schema with `has` and an object instance, the call
\* reports 'does not have any property satisfying has schema' exactly when
\* no property value of the instance validates against the `has` schema
\* without diagnostics, whatever the position of a satisfying value and
\* whatever was diagnosed before.
C26_HasIffNoValueSatisfies ==
    (calls = 1 /\ outcome = "returned" /\ doc \in HasDocs /\ text # Null /\ text.k = "dict")
    => (RootDiagnosed(HasMissing) <=> ~SomeValueSatisfiesHas)

\* C27: a second validate_instance call on the same validator with the same
\* instance (the same object, or the same document loaded again) returns
\* the list the first call returned.
C27_RepeatedCallsIndependent ==
    [][(calls = 1 /\ calls' = 2 /\ outcome = "returned" /\ outcome' = "returned")
          => errors' = errors]_vars

\* The state in which the schema validator's _check_json_pointer(pointer,
\* doc, "#") ends on the document of the instance validator, begun without
\* diagnostics.
PointerChecked ==
    check_json_pointer([h |-> heap, doc |-> root_schema, errors |-> <<>>, exc |-> NoExc,
                        enabled |-> {}, cfg |-> Null],
                       pointer, root_schema, "#")

\* C28: for every document and pointer string, _check_json_pointer reports
\* no diagnostic exactly when _resolve_ref returns a target; pointers with
\* empty segments, without a slash after # and with several leading #
\* included.
C28_ResolversAgree ==
    pointer # Null => (PointerChecked.errors = <<>> <=> target # Null)

\* C29: in extended mode the list that the second validate call of a
\* validator returns is the list a validator freshly built with the same
\* arguments returns for that document, whatever document the first call
\* validated.
C29_NoCarryOver ==
    (sv_calls = 2 /\ sv_outcome = "returned" /\ sv_cfg.extended)
    => LET fresh == SchemaAlone(sv_text, sv_cfg)
       IN fresh.exc = NoExc /\ fresh.errors = sv_errors

\* The messages of a diagnostic list, in order, each with its arguments.
Messages(es) == [j \in 1..Len(es) |-> <<es[j].msg, es[j].arg>>]
\* The diagnostics that the n-th subschema of the root's allOf produces for
\* the instance read when it is the schema of a validator of its own.
AllOfMember(n) ==
    Alone(Isolated(doc, {"allOf"}, Keyword(doc, "allOf").xs[n]), text).errors

\* C30: for a root schema that is an allOf of two subschemas, the list
\* returned holds the diagnostics of the first subschema followed by those
\* of the second, each once.
C30_AllOfCollectsOnce ==
    (calls = 1 /\ outcome = "returned" /\ RootHas("allOf") /\ ~RootHas("type")
     /\ RootMetaNames(ExtendedMeta) /\ Len(Keyword(doc, "allOf").xs) = 2)
    => Messages(errors) = Messages(AllOfMember(1)) \o Messages(AllOfMember(2))
====
